---------------------------- MODULE Spec2Model ----------------------------
(***************************************************************************)
(* A model of matrix-tui's orchestration core:                             *)
(*   - TaskRunner (core.py): per-task inbox + worker, pre_register,        *)
(*     reconcile, destroy_orphans, _cleanup, _worker, _process;            *)
(*   - SandboxManager (sandbox.py): the container map, create, destroy,    *)
(*     load_state;                                                         *)
(*   - main() (__main__.py): the startup sequence;                         *)
(*   - GitHubChannel (channels.py): recover_tasks, the webhook handler;    *)
(*   - Decider.handle_message (decider.py): the bounded LLM/tool loop.     *)
(*                                                                         *)
(* The program is single-threaded asyncio: an action is the code that runs *)
(* between two suspension points (awaits that really suspend).  Python     *)
(* dicts are modelled as sequences of <<key, value>> pairs, so that        *)
(* iteration follows insertion order as list(d) does.  A leading           *)
(* underscore of a Python name is dropped (_queues is queues).             *)
(***************************************************************************)
EXTENDS Naturals, Sequences, FiniteSets, TLC

(***************************************************************************)
(* Bounds of the model.                                                    *)
(***************************************************************************)
MaxMsgs == 2
MaxWorkers == 2
MaxTurns == 3
MaxToolCalls == 2
MaxInvocations == 1

ForgeTasks == {"gh-1", "gh-2"}
ChatTasks == {"room-1"}
Tasks == ForgeTasks \cup ChatTasks

\* The task ids the TaskRunner is driven with when taken on its own.
UnitTasks == {"gh-1", "room-1"}

\* The order in which a persisted container map lists its keys.
TaskOrder == <<"gh-1", "gh-2", "room-1">>

\* The channel adapter a task id belongs to (GitHubChannel makes gh-<n> ids).
ChannelOf(t) == IF t \in ForgeTasks THEN "github" ELSE "matrix"

(***************************************************************************)
(* Python dict, as a sequence of <<key, value>> pairs in insertion order.  *)
(***************************************************************************)
Keys(d) == {d[i][1] : i \in DOMAIN d}
KeyList(d) == [i \in DOMAIN d |-> d[i][1]]
Get(d, k) == d[CHOOSE i \in DOMAIN d : d[i][1] = k][2]
Put(d, k, v) ==
    IF k \in Keys(d)
    THEN [i \in DOMAIN d |-> IF d[i][1] = k THEN <<k, v>> ELSE d[i]]
    ELSE Append(d, <<k, v>>)
Pop(d, k) == SelectSeq(d, LAMBDA p : p[1] # k)

VARIABLES
    queues,      \* TaskRunner._queues: dict task id -> queue object (its id)
    workers,     \* TaskRunner._workers: dict task id -> worker activity (its id)
    channels,    \* TaskRunner._channels: dict task id -> channel adapter
    processing,  \* TaskRunner._processing: set of task ids
    qitems,      \* the asyncio.Queue objects: queue id -> pending messages
    wk,          \* the worker activities (asyncio tasks running _worker)
    nmsg,        \* history: the number of messages enqueued so far (message ids)
    containers,  \* SandboxManager._containers: dict task id -> container name
    rec,         \* the activity running reconcile()
    sweep,       \* the activity running destroy_orphans()
    started,     \* history: per task, the messages whose _process started, in order
    main,        \* the activity running main(): its position and locals
    env,         \* what main() finds: settings, state file, runtime, forge, rooms
    dec,         \* one task's Decider: its history and its handle_message call
    bot,         \* the activity running Bot.run() and its _reconcile_loop
    disk,        \* state.json and state.json.tmp, the histories, save_state
    hook,        \* the webhook server: its requests in flight, the forge
    names,       \* calls of sandbox._container_name: arguments and results
    stream,      \* one call of sandbox.code_stream: its locals and its chunks
    tool,        \* one call of execute_tool for run_tests: its locals
    room         \* the chat bot's own inbox and worker of one room, its events

\* The TaskRunner's own state, which enqueue and pre_register act on.
runnerVars == <<queues, workers, channels, processing, qitems, wk, nmsg>>
coreVars == <<queues, workers, channels, processing, qitems, wk, nmsg,
              containers, rec, sweep, started>>
mainVars == <<main, env, dec, bot, disk, hook, names, stream, tool, room>>
vars == <<queues, workers, channels, processing, qitems, wk, nmsg,
          containers, rec, sweep, started, main, env, dec, bot, disk, hook,
          names, stream, tool, room>>

\* sandbox._container_name: a stable name derived from the task id.
container_name(t) == <<"sandbox", t>>

\* A container map holding exactly the tasks of S, in TaskOrder.
MapOf(S) ==
    LET keys == SelectSeq(TaskOrder, LAMBDA t : t \in S)
    IN  [i \in DOMAIN keys |-> <<keys[i], container_name(keys[i])>>]

\* TaskRunner.__init__ (core.py:13-19), with no activity running yet.
InitRunner ==
    /\ queues = <<>>
    /\ workers = <<>>
    /\ channels = <<>>
    /\ processing = {}
    /\ qitems = <<>>
    /\ wk = <<>>
    /\ nmsg = 0
    /\ rec = [pc |-> "idle", todo |-> <<>>, answers |-> <<>>]
    /\ sweep = [pc |-> "idle", todo |-> <<>>]
    /\ started = [t \in Tasks |-> <<>>]

\* decider.py:87-88: a Decider with turn cap n, no history and no call of
\* handle_message yet.  calls, tool_less, raised and yielded describe the
\* current (or last) call; invocations counts the calls.
NewDecider(n) ==
    [max_turns |-> n, history |-> <<>>, pc |-> "idle", turn |-> 0,
     calls |-> 0, pending |-> 0, tool_less |-> FALSE, raised |-> FALSE,
     saved |-> FALSE, yielded |-> <<>>, invocations |-> 0,
     tool_calls |-> <<>>, first_prompt |-> "none"]

\* Bot.run() not called yet: no sync, no _reconcile_loop, nothing shut down.
NoBot ==
    [pc |-> "none", loop |-> "none", todo |-> <<>>, invalid |-> {},
     atShutdown |-> {}]

\* sandbox.py:17 and 72: the state file and the file save_state writes to.
STATE_PATH == "state.json"
tmp_path_in_place == STATE_PATH
tmp_path == "state.json.tmp"
Paths == {STATE_PATH, "state.json.tmp"}

\* A path with no file.
NoFile == [exists |-> FALSE, text |-> <<>>]

\* Neither file on disk, no history in memory, no container running, no
\* save_state call so far.
NoDisk ==
    [fs |-> [p \in Paths |-> NoFile], histories |-> <<>>, running |-> {},
     save |-> [pc |-> "idle", text |-> <<>>], last |-> "none",
     dirty |-> FALSE]

\* Forge payloads are told apart by the issue they are about.
title(t) == IF t = "gh-1" THEN "title of issue 1" ELSE "title of issue 2"
body(t) == IF t = "gh-1" THEN "body of issue 1" ELSE "body of issue 2"

\* No webhook delivered yet, no secret configured, no comment on any issue.
NoResponse ==
    [n |-> 0, kind |-> "none", task |-> "none", sig |-> "none",
     label |-> "none", repo |-> "none", checked |-> FALSE, status |-> 0,
     text |-> "none", enq |-> <<>>, lines |-> <<>>,
     has_label |-> FALSE, botsender |-> FALSE, marker |-> FALSE]

NoHook ==
    [secret |-> FALSE, forge |-> [t \in ForgeTasks |-> <<>>], reqs |-> <<>>,
     last |-> NoResponse]

\* No call of _container_name on a task id spelled out character by
\* character.
NoNames == [a |-> <<>>, b |-> <<>>, ha |-> <<>>, hb |-> <<>>, again |-> <<>>]

\* sandbox.py:398-434: no call of code_stream yet.  A text is a sequence of
\* characters; stdout_parts and buffer are the lists of that name, chunks
\* the texts passed to on_chunk so far, in order, and result the stdout a
\* call that has returned gave back.
NoStream ==
    [pc |-> "none", chunk_size |-> 0, lines |-> 0, eof |-> FALSE,
     stdout_parts |-> <<>>, buffer |-> <<>>, chunks |-> <<>>,
     timed_out |-> FALSE, result |-> <<>>]

\* tools.py:256-266: no call of run_tests yet.
NoTool ==
    [pc |-> "none", path_ok |-> FALSE, ruff_rc |-> 0, pytest_rc |-> 0,
     lint |-> "none", test |-> "none", lint_rc |-> 0, test_rc |-> 0,
     status |-> "none"]

\* bot.py:33-34: the Bot has no inbox and no worker, and handles no event.
NoRoom ==
    [queued |-> FALSE, worker |-> "none", inbox |-> 0, pc |-> "none",
     cancelled |-> FALSE, event |-> "none", handler |-> "none",
     member |-> FALSE, sent |-> 0]

\* No main() activity: the TaskRunner is taken on its own.
NoMain ==
    /\ bot = NoBot
    /\ disk = NoDisk
    /\ hook = NoHook
    /\ names = NoNames
    /\ stream = NoStream
    /\ tool = NoTool
    /\ room = NoRoom
    /\ dec = NewDecider(0)
    /\ main = [pc |-> "none", recovered |-> <<>>, listed |-> FALSE,
               replay |-> <<>>, called |-> FALSE]
    /\ env = [token |-> FALSE, repo |-> FALSE, issues |-> {}, rooms |-> {},
              file |-> {}, running |-> {}]

\* SandboxManager.__init__ (sandbox.py:38): an empty container map.
Init ==
    /\ InitRunner
    /\ NoMain
    /\ containers = <<>>

(***************************************************************************)
(* TaskRunner.pre_register and TaskRunner.enqueue.  Neither suspends, so   *)
(* each is a function from the TaskRunner's state R to its state after the *)
(* call, which a caller may apply several times within one step.           *)
(***************************************************************************)
Runner ==
    [queues |-> queues, workers |-> workers, channels |-> channels,
     processing |-> processing, qitems |-> qitems, wk |-> wk, nmsg |-> nmsg]

SetRunner(R) ==
    /\ queues' = R.queues
    /\ workers' = R.workers
    /\ channels' = R.channels
    /\ processing' = R.processing
    /\ qitems' = R.qitems
    /\ wk' = R.wk
    /\ nmsg' = R.nmsg

IsRegistered_always_new(R, t) == FALSE

\* core.py:28 and core.py:39: the test "task_id in self._queues".
IsRegistered(R, t) == t \in Keys(R.queues)

\* A worker activity as asyncio.create_task leaves it; `by` remembers the
\* operation that created it.
NewWorker(t, by) ==
    [task |-> t, pc |-> "start", queue |-> 0, channel |-> "none",
     msg |-> 0, results |-> 0, errors |-> 0, raised |-> FALSE,
     cancelled |-> FALSE, by |-> by]

\* core.py:30-35 and core.py:40-45: queue, channel, processing, worker.
Register(R, t, c, by) ==
    [R EXCEPT !.queues = Put(@, t, Len(R.qitems) + 1),
              !.qitems = Append(@, <<>>),
              !.channels = Put(@, t, c),
              !.processing = @ \cup {t},
              !.workers = Put(@, t, Len(R.wk) + 1),
              !.wk = Append(@, NewWorker(t, by))]

pre_register_no_processing(R, t, c) ==
    IF IsRegistered(R, t) THEN R
    ELSE [Register(R, t, c, "pre_register") EXCEPT !.processing = R.processing]

\* core.py:21-35.
pre_register(R, t, c) ==
    IF IsRegistered(R, t) THEN R ELSE Register(R, t, c, "pre_register")

\* core.py:46: Queue.put on an unbounded queue appends and does not suspend.
queue_put(q, m) == Append(q, m)

\* core.py:37-46.  The message is identified by its number in enqueue order.
enqueue(R, t, c) ==
    LET R1 == IF IsRegistered(R, t) THEN R ELSE Register(R, t, c, "enqueue")
    IN  [R1 EXCEPT !.qitems[Get(R1.queues, t)] = queue_put(@, R.nmsg + 1),
                   !.nmsg = @ + 1]

\* The calls the bounds of the model leave room for.
MayEnqueue(R, t, n) ==
    /\ R.nmsg + n <= MaxMsgs
    /\ IsRegistered(R, t) \/ Len(R.wk) < MaxWorkers

CallEnqueue(t, c) ==
    /\ MayEnqueue(Runner, t, 1)
    /\ SetRunner(enqueue(Runner, t, c))
    /\ UNCHANGED <<containers, rec, sweep, started>>

CallPreRegister(t, c) ==
    /\ IsRegistered(Runner, t) \/ Len(wk) < MaxWorkers
    /\ SetRunner(pre_register(Runner, t, c))
    /\ UNCHANGED <<containers, rec, sweep, started>>

(***************************************************************************)
(* TaskRunner._worker and TaskRunner._process                              *)
(*                                                                         *)
(* pc of a worker activity: where it is suspended.                         *)
(*   "start"           created by create_task, not yet run                 *)
(*   "get"             awaiting queue.get() on an empty queue              *)
(*   "create"          in _process, awaiting sandbox.create (podman run)   *)
(*   "decider"         in _process, awaiting inside decider.handle_message *)
(*   "deliver_result"  awaiting channel.deliver_result                     *)
(*   "deliver_error"   awaiting channel.deliver_error                      *)
(*   "done"            the coroutine has returned                          *)
(***************************************************************************)
InProcess == {"create", "decider", "deliver_result", "deliver_error"}

Runnable_one_at_a_time(w) ==
    /\ w \in DOMAIN wk /\ ~wk[w].cancelled /\ wk[w].pc # "done"
    /\ \A v \in DOMAIN wk :
           (v # w /\ ~wk[v].cancelled /\ wk[v].pc # "done")
               => wk[v].pc \notin {"create", "decider", "deliver_result",
                                  "deliver_error"}

\* A worker that may take a step of its own code: Task.cancel() makes the
\* next resumption of the coroutine raise CancelledError instead.
Runnable(w) == w \in DOMAIN wk /\ ~wk[w].cancelled /\ wk[w].pc # "done"

queue_get_newest(q) == q[Len(q)]

\* core.py:54: message = await queue.get(): the head of the inbox.
queue_get(q) == Head(q)

\* core.py:67: the test "task_id not in self.sandbox._containers", and
\* sandbox.py:117: create returns at once for a mapped task.
HasContainer(t) == t \in Keys(containers)

\* core.py:53-56 and 64-68: the top of the worker loop.  With a message in
\* the inbox queue.get() does not suspend and _process runs up to its first
\* suspension: podman run in sandbox.create, or the LLM call of the decider.
\* W, Q are the worker table and the queue objects as the step found them.
WorkerLoop(w, W, Q) ==
    LET q == W[w].queue
        t == W[w].task
    IN  IF Q[q] = <<>>
        THEN /\ wk' = [W EXCEPT ![w].pc = "get", ![w].msg = 0,
                                ![w].results = 0, ![w].errors = 0,
                                ![w].raised = FALSE]
             /\ qitems' = Q
             /\ started' = started
        ELSE /\ wk' = [W EXCEPT ![w].msg = queue_get(Q[q]),
                                ![w].results = 0, ![w].errors = 0,
                                ![w].raised = FALSE,
                                ![w].pc = IF HasContainer(t) THEN "decider"
                                                             ELSE "create"]
             /\ qitems' = [Q EXCEPT ![q] = Tail(@)]
             /\ started' = [started EXCEPT ![t] = Append(@, queue_get(Q[q]))]

\* core.py:50-51: the first run of the coroutine binds channel and queue.
WorkerStart(w) ==
    /\ Runnable(w) /\ wk[w].pc = "start"
    /\ wk[w].task \in Keys(queues) /\ wk[w].task \in Keys(channels)
    /\ WorkerLoop(w, [wk EXCEPT ![w].queue = Get(queues, wk[w].task),
                                ![w].channel = Get(channels, wk[w].task)],
                  qitems)
    /\ UNCHANGED <<queues, workers, channels, processing, containers,
                   rec, sweep, nmsg>>

\* core.py:54: a message arrives for a worker suspended in queue.get().
WorkerGet(w) ==
    /\ Runnable(w) /\ wk[w].pc = "get"
    /\ qitems[wk[w].queue] # <<>>
    /\ WorkerLoop(w, wk, qitems)
    /\ UNCHANGED <<queues, workers, channels, processing, containers,
                   rec, sweep, nmsg>>

WorkerCreateDone_fatal(w, ok) ==
    /\ Runnable(w) /\ wk[w].pc = "create"
    /\ IF ok
       THEN /\ containers' = Put(containers, wk[w].task,
                                 container_name(wk[w].task))
            /\ wk' = [wk EXCEPT ![w].pc = "decider"]
       ELSE /\ wk' = [wk EXCEPT ![w].pc = "done"]
            /\ UNCHANGED containers
    /\ UNCHANGED <<qitems, started>>
    /\ UNCHANGED <<queues, workers, channels, processing, rec, sweep, nmsg>>

\* sandbox.py:133-149 and core.py:57-60: podman run returns.  rc = 0: the
\* task is mapped, the workspace initialised and handle_message entered.
\* rc # 0: create raises RuntimeError; in _process the call is outside the
\* try block (core.py:67-68), so the exception reaches the worker's handler,
\* which logs it, calls task_done and goes on with the loop.
WorkerCreateDone(w, ok) ==
    /\ Runnable(w) /\ wk[w].pc = "create"
    /\ IF ok
       THEN /\ containers' = Put(containers, wk[w].task,
                                 container_name(wk[w].task))
            /\ wk' = [wk EXCEPT ![w].pc = "decider"]
            /\ UNCHANGED <<qitems, started>>
       ELSE /\ WorkerLoop(w, wk, qitems)
            /\ UNCHANGED containers
    /\ UNCHANGED <<queues, workers, channels, processing, rec, sweep, nmsg>>

\* What one handle_message call gives _process: a last non-empty text, no
\* text at all (a final turn with empty content), or an exception.
DeciderOutcomes == {"text", "no_text", "raise"}

WorkerDeciderDone_result_in_finally(w, outcome) ==
    /\ Runnable(w) /\ wk[w].pc = "decider"
    /\ CASE outcome = "text" ->
              /\ wk' = [wk EXCEPT ![w].pc = "deliver_result",
                                   ![w].results = @ + 1]
              /\ UNCHANGED <<qitems, started>>
         [] outcome = "raise" ->
              /\ wk' = [wk EXCEPT ![w].pc = "deliver_error",
                                   ![w].errors = @ + 1,
                                   ![w].results = @ + 1,
                                   ![w].raised = TRUE]
              /\ UNCHANGED <<qitems, started>>
         [] OTHER ->
              WorkerLoop(w, wk, qitems)
    /\ UNCHANGED <<queues, workers, channels, processing, containers,
                   rec, sweep, nmsg>>

\* core.py:75-88 and 57-60: the decider's generator ends.
WorkerDeciderDone(w, outcome) ==
    /\ Runnable(w) /\ wk[w].pc = "decider"
    /\ CASE outcome = "text" ->
              /\ wk' = [wk EXCEPT ![w].pc = "deliver_result",
                                   ![w].results = @ + 1]
              /\ UNCHANGED <<qitems, started>>
         [] outcome = "raise" ->
              /\ wk' = [wk EXCEPT ![w].pc = "deliver_error",
                                   ![w].errors = @ + 1,
                                   ![w].raised = TRUE]
              /\ UNCHANGED <<qitems, started>>
         [] OTHER ->
              WorkerLoop(w, wk, qitems)
    /\ UNCHANGED <<queues, workers, channels, processing, containers,
                   rec, sweep, nmsg>>

\* core.py:85-88 and 57-60: the channel's deliver_* returns or raises.  An
\* exception of deliver_result is caught by the same except clause, which
\* calls deliver_error; after deliver_error the exception (or the one that
\* deliver_error raised) reaches the worker, which logs it and loops.
WorkerDeliverDone(w, ok) ==
    /\ Runnable(w) /\ wk[w].pc \in {"deliver_result", "deliver_error"}
    /\ IF wk[w].pc = "deliver_result" /\ ~ok
       THEN /\ wk' = [wk EXCEPT ![w].pc = "deliver_error",
                                 ![w].errors = @ + 1]
            /\ UNCHANGED <<qitems, started>>
       ELSE WorkerLoop(w, wk, qitems)
    /\ UNCHANGED <<queues, workers, channels, processing, containers,
                   rec, sweep, nmsg>>

WorkerCancelled_as_exception(w) ==
    /\ w \in DOMAIN wk /\ wk[w].cancelled /\ wk[w].pc # "done"
    /\ wk' = [wk EXCEPT ![w].pc = IF @ = "decider" THEN "deliver_error"
                                                    ELSE "done",
                        ![w].errors = IF wk[w].pc = "decider" THEN @ + 1 ELSE @]
    /\ UNCHANGED <<queues, workers, channels, processing, containers,
                   qitems, rec, sweep, nmsg, started>>

\* core.py:59-62: CancelledError is raised at the await where the cancelled
\* worker is suspended; it is no Exception, so only the finally clause
\* (task_done) and the outer handler run, and the coroutine returns.
WorkerCancelled(w) ==
    /\ w \in DOMAIN wk /\ wk[w].cancelled /\ wk[w].pc # "done"
    /\ wk' = [wk EXCEPT ![w] = [NewWorker(@.task, @.by) EXCEPT
                                    !.pc = "done", !.cancelled = TRUE]]
    /\ UNCHANGED <<queues, workers, channels, processing, containers,
                   qitems, rec, sweep, nmsg, started>>

(***************************************************************************)
(* SandboxManager.destroy, TaskRunner._cleanup, reconcile, destroy_orphans *)
(***************************************************************************)
\* sandbox.py:387-390: destroy pops the map entry before its first await.
destroy(C, t) == Pop(C, t)

cleanup_keeps_processing(t) ==
    /\ IF t \in Keys(workers)
       THEN /\ wk' = [wk EXCEPT ![Get(workers, t)].cancelled = TRUE]
            /\ workers' = Pop(workers, t)
       ELSE UNCHANGED <<wk, workers>>
    /\ queues' = Pop(queues, t)
    /\ channels' = Pop(channels, t)
    /\ processing' = processing
    /\ containers' = IF t \in Keys(containers) THEN destroy(containers, t)
                                               ELSE containers

\* core.py:98-107.  Everything up to the awaits inside sandbox.destroy runs
\* without suspension.
cleanup(t) ==
    /\ IF t \in Keys(workers)
       THEN /\ wk' = [wk EXCEPT ![Get(workers, t)].cancelled = TRUE]
            /\ workers' = Pop(workers, t)
       ELSE UNCHANGED <<wk, workers>>
    /\ queues' = Pop(queues, t)
    /\ channels' = Pop(channels, t)
    /\ processing' = processing \ {t}
    /\ containers' = IF t \in Keys(containers) THEN destroy(containers, t)
                                               ELSE containers

\* core.py:92-94: reconcile snapshots list(self._channels) and asks the
\* first task's channel is_valid, where it suspends.
reconcile_call ==
    /\ rec.pc = "idle" /\ channels # <<>>
    /\ rec' = [pc |-> "is_valid", todo |-> KeyList(channels), answers |-> <<>>]
    /\ UNCHANGED <<queues, workers, channels, processing, containers,
                   qitems, wk, sweep, nmsg, started>>

\* What a pass remembers of an answer: the task, the answer, and the queue
\* and worker objects the task was bound to when its channel answered.
Answer(t, valid) ==
    [task |-> t, valid |-> valid,
     queue |-> IF t \in Keys(queues) THEN Get(queues, t) ELSE 0,
     worker |-> IF t \in Keys(workers) THEN Get(workers, t) ELSE 0]

reconcile_answer_inverted(valid) ==
    /\ rec.pc = "is_valid"
    /\ IF ~valid
       THEN UNCHANGED <<queues, workers, channels, processing, containers, wk>>
       ELSE cleanup(Head(rec.todo))
    /\ LET rest == Tail(rec.todo)
           ans == Append(rec.answers, Answer(Head(rec.todo), valid)) IN
       rec' = IF rest = <<>> \/ Head(rest) \notin Keys(channels')
              THEN [rec EXCEPT !.pc = "idle", !.todo = <<>>, !.answers = <<>>]
              ELSE [rec EXCEPT !.todo = rest, !.answers = ans]
    /\ UNCHANGED <<qitems, sweep, nmsg, started>>

\* core.py:93-96: is_valid answers for the head of the snapshot; an invalid
\* task is cleaned up; then the next task's channel is looked up (a KeyError
\* for a task no longer bound ends the pass) and asked.  The answers given
\* so far are remembered, as history, until the pass ends.
reconcile_answer(valid) ==
    /\ rec.pc = "is_valid"
    /\ IF valid
       THEN UNCHANGED <<queues, workers, channels, processing, containers, wk>>
       ELSE cleanup(Head(rec.todo))
    /\ LET rest == Tail(rec.todo)
           ans == Append(rec.answers, Answer(Head(rec.todo), valid)) IN
       rec' = IF rest = <<>> \/ Head(rest) \notin Keys(channels')
              THEN [rec EXCEPT !.pc = "idle", !.todo = <<>>, !.answers = <<>>]
              ELSE [rec EXCEPT !.todo = rest, !.answers = ans]
    /\ UNCHANGED <<qitems, sweep, nmsg, started>>

IsOrphan_any(t) == TRUE

\* core.py:121: the test "chat_id not in self._processing".
IsOrphan(t) == t \notin processing

\* core.py:120-123: the loop of destroy_orphans from the list `todo` on, up
\* to its next suspension: a task in the processing set is passed over; an
\* orphan is destroyed, and sandbox.destroy suspends in podman stop unless
\* the task is no longer mapped (sandbox.py:388-390).
RECURSIVE SweepRun(_, _)
SweepRun(todo, C) ==
    IF todo = <<>> THEN [todo |-> <<>>, containers |-> C, pc |-> "idle"]
    ELSE IF IsOrphan(Head(todo)) /\ Head(todo) \in Keys(C)
         THEN [todo |-> Tail(todo), containers |-> destroy(C, Head(todo)),
               pc |-> "destroy"]
         ELSE SweepRun(Tail(todo), C)

destroy_orphans_call ==
    /\ sweep.pc = "idle"
    /\ LET r == SweepRun(KeyList(containers), containers) IN
       /\ sweep' = [pc |-> r.pc, todo |-> r.todo]
       /\ containers' = r.containers
    /\ UNCHANGED <<queues, workers, channels, processing, qitems, wk, rec,
                   nmsg, started>>

\* sandbox.py:391-396: podman stop and rm have returned; the loop goes on.
destroy_orphans_resume ==
    /\ sweep.pc = "destroy"
    /\ LET r == SweepRun(sweep.todo, containers) IN
       /\ sweep' = [sweep EXCEPT !.pc = r.pc, !.todo = r.todo]
       /\ containers' = r.containers
    /\ UNCHANGED <<queues, workers, channels, processing, qitems, wk, rec,
                   nmsg, started>>

(***************************************************************************)
(* Spec: a TaskRunner over a fresh SandboxManager, driven through enqueue, *)
(* pre_register and reconcile in any order while its workers run.          *)
(***************************************************************************)
WorkerStep ==
    \/ \E w \in DOMAIN wk : WorkerStart(w)
    \/ \E w \in DOMAIN wk : WorkerGet(w)
    \/ \E w \in DOMAIN wk, ok \in BOOLEAN : WorkerCreateDone(w, ok)
    \/ \E w \in DOMAIN wk, o \in DeciderOutcomes : WorkerDeciderDone(w, o)
    \/ \E w \in DOMAIN wk, ok \in BOOLEAN : WorkerDeliverDone(w, ok)
    \/ \E w \in DOMAIN wk : WorkerCancelled(w)

Next ==
    \/ (\E t \in UnitTasks : CallEnqueue(t, ChannelOf(t))) /\ UNCHANGED mainVars
    \/ (\E t \in UnitTasks : CallPreRegister(t, ChannelOf(t)))
           /\ UNCHANGED mainVars
    \/ WorkerStep /\ UNCHANGED mainVars
    \/ reconcile_call /\ UNCHANGED mainVars
    \/ (\E v \in BOOLEAN : reconcile_answer(v)) /\ UNCHANGED mainVars

Spec == Init /\ [][Next]_vars

(***************************************************************************)
(* SpecOrphans: a TaskRunner over a SandboxManager whose map holds the     *)
(* containers that load_state found running, with destroy_orphans called   *)
(* at any moment.                                                          *)
(***************************************************************************)
InitOrphans ==
    /\ InitRunner
    /\ NoMain
    /\ \E S \in SUBSET UnitTasks : containers = MapOf(S)

NextOrphans ==
    \/ (\E t \in UnitTasks : CallEnqueue(t, ChannelOf(t))) /\ UNCHANGED mainVars
    \/ (\E t \in UnitTasks : CallPreRegister(t, ChannelOf(t)))
           /\ UNCHANGED mainVars
    \/ WorkerStep /\ UNCHANGED mainVars
    \/ destroy_orphans_call /\ UNCHANGED mainVars
    \/ destroy_orphans_resume /\ UNCHANGED mainVars

SpecOrphans == InitOrphans /\ [][NextOrphans]_vars

(***************************************************************************)
(* SpecMain: the entry point main() from a restart on.  env is what the    *)
(* new process finds: whether GITHUB_TOKEN and GITHUB_REPO are set, the    *)
(* open agent-task issues of the forge, the rooms the bot is a member of,  *)
(* the containers state.json names and those of them still running.        *)
(***************************************************************************)
StartupOrder_sweep_first ==
    <<"load_state", "destroy_orphans", "recover_tasks", "start", "enqueue",
      "setup", "run">>

StartupOrder_sweep_before_setup ==
    <<"load_state", "recover_tasks", "start", "enqueue", "destroy_orphans",
      "setup", "run">>

\* __main__.py:26-46: the awaits of main(), in program order.
StartupOrder ==
    <<"load_state", "recover_tasks", "start", "enqueue", "setup",
      "destroy_orphans", "run">>

\* The step of main() that follows step p.
After(p) ==
    LET i == CHOOSE k \in DOMAIN StartupOrder : StartupOrder[k] = p
    IN  StartupOrder[i + 1]

\* The webhook server accepts requests once start() has bound its socket.
Listening ==
    /\ env.token
    /\ main.pc \in {"enqueue", "setup", "destroy_orphans", "run"}

InitMain ==
    /\ InitRunner
    /\ containers = <<>>
    /\ bot = NoBot
    /\ disk = NoDisk
    /\ hook = NoHook
    /\ names = NoNames
    /\ stream = NoStream
    /\ tool = NoTool
    /\ room = NoRoom
    /\ dec = NewDecider(0)
    /\ main = [pc |-> "load_state", recovered |-> <<>>, listed |-> FALSE,
               replay |-> <<>>, called |-> FALSE]
    /\ \E tk \in BOOLEAN, rp \in BOOLEAN, is \in SUBSET ForgeTasks,
          rm \in SUBSET ChatTasks, fl \in SUBSET UnitTasks :
         \E rn \in SUBSET fl :
            env = [token |-> tk, repo |-> rp, issues |-> is, rooms |-> rm,
                   file |-> fl, running |-> rn]

\* sandbox.py:81-110: the live map keeps the containers of state.json that
\* podman inspect reports as running.  __main__.py:31: without a token the
\* forge steps are skipped.
load_state == MapOf({t \in env.file : t \in env.running})

MainLoadState ==
    /\ main.pc = "load_state"
    /\ containers' = load_state
    /\ main' = [main EXCEPT !.pc = IF env.token THEN After("load_state")
                                                ELSE After("enqueue")]
    /\ UNCHANGED <<runnerVars, rec, sweep, started, env, dec, bot, disk, hook, names, stream, tool, room>>

recover_tasks_first_only(listed) ==
    IF ~env.repo \/ ~listed THEN <<>>
    ELSE LET all == SelectSeq(TaskOrder, LAMBDA t : t \in env.issues)
         IN  IF all = <<>> THEN <<>> ELSE <<Head(all)>>

\* channels.py:123-165: nothing without github_repo, nothing when gh issue
\* list fails, else one task per open agent-task issue, in listing order.
recover_tasks(listed) ==
    IF ~env.repo \/ ~listed THEN <<>>
    ELSE SelectSeq(TaskOrder, LAMBDA t : t \in env.issues)

\* __main__.py:32-33.
MainRecover(listed) ==
    /\ main.pc = "recover_tasks"
    /\ main' = [main EXCEPT !.recovered = recover_tasks(listed),
                            !.listed = env.repo /\ listed,
                            !.pc = After("recover_tasks")]
    /\ UNCHANGED <<coreVars, env, dec, bot, disk, hook, names, stream, tool, room>>

\* __main__.py:34, channels.py:55-61.
MainStart ==
    /\ main.pc = "start"
    /\ main' = [main EXCEPT !.pc = After("start")]
    /\ UNCHANGED <<coreVars, env, dec, bot, disk, hook, names, stream, tool, room>>

\* __main__.py:35-36: the loop over the recovered pairs; enqueue does not
\* suspend, so the loop is one step.
RECURSIVE EnqueueAll(_, _, _)
EnqueueAll(R, ts, c) ==
    IF ts = <<>> THEN R ELSE EnqueueAll(enqueue(R, Head(ts), c), Tail(ts), c)

MainEnqueue ==
    /\ main.pc = "enqueue"
    /\ SetRunner(EnqueueAll(Runner, main.recovered, "github"))
    /\ main' = [main EXCEPT
                   !.replay = [i \in DOMAIN main.recovered |->
                                   <<main.recovered[i], nmsg + i>>],
                   !.pc = After("enqueue")]
    /\ UNCHANGED <<containers, rec, sweep, started, env, dec, bot, disk, hook, names, stream, tool, room>>

\* Bot.setup, called at __main__.py:40: after the sync, pre_register every
\* room the bot is in whose container is in the live map.
RECURSIVE PreRegisterAll(_, _, _)
PreRegisterAll(R, ts, c) ==
    IF ts = <<>> THEN R
    ELSE PreRegisterAll(pre_register(R, Head(ts), c), Tail(ts), c)

setup_rooms ==
    SelectSeq(TaskOrder, LAMBDA t : t \in env.rooms /\ t \in Keys(containers))

MainSetup ==
    /\ main.pc = "setup"
    /\ SetRunner(PreRegisterAll(Runner, setup_rooms, "matrix"))
    /\ main' = [main EXCEPT !.pc = After("setup")]
    /\ UNCHANGED <<containers, rec, sweep, started, env, dec, bot, disk, hook, names, stream, tool, room>>

\* __main__.py:43: destroy_orphans is entered, and main() goes on when it
\* has returned.
MainSweepCall ==
    /\ main.pc = "destroy_orphans" /\ ~main.called
    /\ destroy_orphans_call
    /\ main' = IF sweep'.pc = "idle"
               THEN [main EXCEPT !.pc = After("destroy_orphans")]
               ELSE [main EXCEPT !.called = TRUE]
    /\ UNCHANGED <<env, dec, bot, disk, hook, names, stream, tool, room>>

MainSweepResume ==
    /\ main.pc = "destroy_orphans" /\ main.called
    /\ destroy_orphans_resume
    /\ main' = IF sweep'.pc = "idle"
               THEN [main EXCEPT !.pc = After("destroy_orphans"),
                                 !.called = FALSE]
               ELSE main
    /\ UNCHANGED <<env, dec, bot, disk, hook, names, stream, tool, room>>

\* channels.py:227-240: an issue_comment/created delivery from a user on an
\* agent-task issue.
WebhookComment(t) ==
    /\ Listening
    /\ CallEnqueue(t, "github")
    /\ UNCHANGED mainVars

\* The chat channel's message callback while bot.run() syncs
\* (__main__.py:46): a message in a joined room is enqueued.
ChatMessage(t) ==
    /\ main.pc = "run"
    /\ t \in env.rooms
    /\ CallEnqueue(t, "matrix")
    /\ UNCHANGED mainVars

NextMain ==
    \/ MainLoadState
    \/ \E listed \in BOOLEAN : MainRecover(listed)
    \/ MainStart
    \/ MainEnqueue
    \/ MainSetup
    \/ MainSweepCall
    \/ MainSweepResume
    \/ \E t \in ForgeTasks : WebhookComment(t)
    \/ \E t \in ChatTasks : ChatMessage(t)
    \/ WorkerStep /\ UNCHANGED mainVars

SpecMain == InitMain /\ [][NextMain]_vars

(***************************************************************************)
(* SpecDecider: Decider.handle_message for one task of the forge channel,  *)
(* called message after message as the task's worker does, against every   *)
(* behaviour of the LLM transport and of the tools.                        *)
(***************************************************************************)
MaxTurnsText == "Reached maximum turns"

InitDecider ==
    /\ InitRunner
    /\ containers = <<>>
    /\ main = [pc |-> "none", recovered |-> <<>>, listed |-> FALSE,
               replay |-> <<>>, called |-> FALSE]
    /\ env = [token |-> FALSE, repo |-> FALSE, issues |-> {}, rooms |-> {},
              file |-> {}, running |-> {}]
    /\ bot = NoBot
    /\ disk = NoDisk
    /\ hook = NoHook
    /\ names = NoNames
    /\ stream = NoStream
    /\ tool = NoTool
    /\ room = NoRoom
    /\ \E n \in 0..MaxTurns : dec = NewDecider(n)

\* decider.py:20 and 52: the default prompt and the prompt of the forge
\* channel (channels.py:43); the base ChannelAdapter, and with it the chat
\* channel, has the empty prompt (channels.py:17).
SYSTEM_PROMPT == "default system prompt"
GITHUB_SYSTEM_PROMPT == "github system prompt"

\* channels.py:17 and 43: the system_prompt attribute of channel c.
channel_system_prompt(c) == IF c = "github" THEN GITHUB_SYSTEM_PROMPT ELSE ""

\* The entries of a history (decider.py:99, 105, 126, 161-165).  Of an
\* entry's content only the prompt of the system entry is kept, and of its
\* other keys the tool_call_id of a tool entry.  Ids are opaque and distinct
\* within a turn: a call is named by its position in the list the LLM
\* emitted.
SystemEntry(content) ==
    [role |-> "system", content |-> content, tool_call_id |-> 0]
UserEntry == [role |-> "user", content |-> "", tool_call_id |-> 0]
AssistantEntry == [role |-> "assistant", content |-> "", tool_call_id |-> 0]
ToolEntry(id) == [role |-> "tool", content |-> "", tool_call_id |-> id]

prompt_as_given(system_prompt) == system_prompt

\* decider.py:98: prompt = system_prompt or SYSTEM_PROMPT.
prompt(system_prompt) ==
    IF system_prompt = "" THEN SYSTEM_PROMPT ELSE system_prompt

\* decider.py:96-100.
get_history(h, system_prompt) ==
    IF h = <<>> THEN <<SystemEntry(prompt(system_prompt))>> ELSE h

NextTurn_one_more(d) ==
    IF d.turn <= d.max_turns
    THEN [d EXCEPT !.pc = "llm", !.calls = @ + 1]
    ELSE [d EXCEPT !.pc = "done", !.saved = TRUE,
                   !.yielded = Append(@, MaxTurnsText)]

\* decider.py:108-119 and 168-170: the head of "for turn in
\* range(self.max_turns)" with d.turn turns completed: either the LLM is
\* called, or the loop is over, state is saved and the fixed text yielded.
NextTurn(d) ==
    IF d.turn < d.max_turns
    THEN [d EXCEPT !.pc = "llm", !.calls = @ + 1]
    ELSE [d EXCEPT !.pc = "done", !.saved = TRUE,
                   !.yielded = Append(@, MaxTurnsText)]

\* decider.py:102-119: the worker calls handle_message with a new message.
handle_message(system_prompt) ==
    /\ dec.pc \in {"idle", "done"}
    /\ dec.invocations < MaxInvocations
    /\ dec' = NextTurn([dec EXCEPT
                  !.history = Append(get_history(@, system_prompt), UserEntry),
                  !.first_prompt = IF dec.history = <<>> THEN system_prompt
                                                         ELSE @,
                  !.tool_calls = <<>>,
                  !.turn = 0, !.calls = 0, !.pending = 0,
                  !.tool_less = FALSE, !.raised = FALSE, !.saved = FALSE,
                  !.yielded = <<>>, !.invocations = @ + 1])
    /\ UNCHANGED <<coreVars, main, env, bot, disk, hook, names, stream, tool, room>>

\* The tool calls of a message with n of them, in the order emitted.
ToolCalls(n) == [i \in 1..n |-> i]

\* decider.py:119-148: acompletion returns a message with n tool calls and
\* with or without content, or raises.
LLMReturn(content, n, raises) ==
    /\ dec.pc = "llm"
    /\ dec' =
         IF raises THEN [dec EXCEPT !.pc = "done", !.raised = TRUE]
         ELSE LET d == [dec EXCEPT !.history = Append(@, AssistantEntry),
                                   !.tool_calls = ToolCalls(n)] IN
              IF n = 0
              THEN [d EXCEPT !.pc = "done", !.tool_less = TRUE,
                             !.saved = content,
                             !.yielded = IF content THEN Append(@, "content")
                                                    ELSE @]
              ELSE [d EXCEPT !.pc = "tool", !.pending = n]
    /\ UNCHANGED <<coreVars, main, env, bot, disk, hook, names, stream, tool, room>>

tc_last_first(d) == d.tool_calls[d.pending]

\* decider.py:151: "for tc in msg.tool_calls" with d.pending calls of the
\* turn still to finish: the call being executed.
tc(d) == d.tool_calls[Len(d.tool_calls) - d.pending + 1]

\* decider.py:151-166: execute_tool returns its text, with or without an
\* image, or raises; after the last tool call of the turn the loop goes on.
ToolReturn(image, raises) ==
    /\ dec.pc = "tool"
    /\ dec' =
         IF raises THEN [dec EXCEPT !.pc = "done", !.raised = TRUE]
         ELSE LET d == [dec EXCEPT !.history = Append(@, ToolEntry(tc(dec))),
                                   !.pending = @ - 1,
                                   !.yielded = IF image THEN Append(@, "image")
                                                        ELSE @]
              IN  IF d.pending = 0 THEN NextTurn([d EXCEPT !.turn = @ + 1])
                                   ELSE d
    /\ UNCHANGED <<coreVars, main, env, bot, disk, hook, names, stream, tool, room>>

LLMStep ==
    \E content \in BOOLEAN, n \in 0..MaxToolCalls, raises \in BOOLEAN :
        LLMReturn(content, n, raises)

ToolStep == \E image \in BOOLEAN, raises \in BOOLEAN : ToolReturn(image, raises)

NextDecider ==
    \/ handle_message(channel_system_prompt("github"))
    \/ LLMStep
    \/ ToolStep

\* Every awaited call of the decider returns or raises: the transport and
\* the tools run under timeouts.
SpecDecider ==
    /\ InitDecider
    /\ [][NextDecider]_vars
    /\ WF_vars(LLMStep)
    /\ WF_vars(ToolStep)

(***************************************************************************)
(* SpecHistory: the history of one task id in the Decider's map, from      *)
(* process start on: absent, or loaded by load_histories from the state    *)
(* file an earlier process wrote.  The task's messages come from either    *)
(* channel, and the turn cap is a small configured number.                 *)
(***************************************************************************)
\* A history as an earlier process persisted it: one exchange on the chat
\* channel.
PersistedHistory == <<SystemEntry(SYSTEM_PROMPT), UserEntry, AssistantEntry>>

\* decider.py:92-94: load_histories puts the persisted histories in the map.
load_histories(d, h) == [d EXCEPT !.history = h]

InitHistory ==
    /\ InitRunner
    /\ containers = <<>>
    /\ main = [pc |-> "none", recovered |-> <<>>, listed |-> FALSE,
               replay |-> <<>>, called |-> FALSE]
    /\ env = [token |-> FALSE, repo |-> FALSE, issues |-> {}, rooms |-> {},
              file |-> {}, running |-> {}]
    /\ bot = NoBot
    /\ disk = NoDisk
    /\ hook = NoHook
    /\ names = NoNames
    /\ stream = NoStream
    /\ tool = NoTool
    /\ room = NoRoom
    /\ \E n \in {1, 2}, h \in {<<>>, PersistedHistory} :
           dec = load_histories(NewDecider(n), h)

NextHistory ==
    \/ \E t \in UnitTasks : handle_message(channel_system_prompt(ChannelOf(t)))
    \/ LLMStep
    \/ ToolStep

SpecHistory == InitHistory /\ [][NextHistory]_vars

(***************************************************************************)
(* Properties of the TaskRunner.                                           *)
(***************************************************************************)
Range(q) == {q[i] : i \in DOMAIN q}

\* The worker activities of task t that can still run their own code.
LiveWorkers(t) == {w \in DOMAIN wk : wk[w].task = t /\ Runnable(w)}

\* C1: at no time can two worker activities of one task id both process a
\* message: of the workers ever started for a task, at most one is neither
\* cancelled nor finished, whatever enqueue, pre_register, reconcile and
\* cleanup did before.
C1_OneWorkerPerTask == \A t \in Tasks : Cardinality(LiveWorkers(t)) <= 1

\* C1 witness: a task registered again after a cleanup whose cancelled worker
\* has not unwound yet, with its live worker in _process and a further
\* message enqueued behind it.
C1_Witness ==
    \E w1 \in DOMAIN wk, w2 \in DOMAIN wk :
        /\ wk[w1].task = wk[w2].task
        /\ wk[w1].cancelled /\ wk[w1].pc # "done"
        /\ Runnable(w2) /\ wk[w2].pc \in InProcess
        /\ qitems[wk[w2].queue] # <<>>

StrictlyIncreasing(q) == \A i \in DOMAIN q, j \in DOMAIN q : i < j => q[i] < q[j]

\* C2 as stated: per task the messages start in enqueue order, none twice,
\* and no two _process calls of one task are ever open at the same time.
C2_Original ==
    \A t \in Tasks :
        /\ StrictlyIncreasing(started[t])
        /\ Cardinality({w \in DOMAIN wk : wk[w].task = t
                                          /\ wk[w].pc \in InProcess}) <= 1

\* C2 amended: per task the messages start in enqueue order, none twice, and
\* a message starts only when the _process of every earlier message of the
\* task has returned, raised, or belongs to a worker that _cleanup cancelled.
C2_Fifo ==
    \A t \in Tasks :
        /\ StrictlyIncreasing(started[t])
        /\ Cardinality({w \in LiveWorkers(t) : wk[w].pc \in InProcess}) <= 1

\* C2 witness: two messages of one task have started, the second in _process.
C2_Witness ==
    \E w \in DOMAIN wk :
        /\ Runnable(w) /\ wk[w].pc \in InProcess
        /\ Len(started[wk[w].task]) >= 2

\* C3: the key sets of _queues, _workers and _channels and the set
\* _processing are equal in every reachable state.
C3_KeySetsEqual ==
    /\ Keys(queues) = processing
    /\ Keys(workers) = processing
    /\ Keys(channels) = processing

\* C3 witness: one task is registered and another has been cleaned up.
C3_Witness ==
    /\ processing # {}
    /\ \E w \in DOMAIN wk : wk[w].cancelled /\ wk[w].task \notin processing

\* The tasks a step of destroy_orphans has passed in its list.
SweepExamined ==
    Range(IF sweep.pc = "idle" THEN KeyList(containers) ELSE sweep.todo)
        \ Range(sweep'.todo)

\* C4: every step of destroy_orphans removes from the container map exactly
\* the tasks it passes in its list that are not in the processing set, and a
\* call passes every task that was mapped when it began.
C4_SweepExact ==
    [][sweep' # sweep =>
        /\ Keys(containers') =
             {t \in Keys(containers) :
                  ~(t \in SweepExamined /\ t \notin processing)}
        /\ sweep'.pc = "idle" => sweep'.todo = <<>>]_vars

\* C4 witness: destroy_orphans has destroyed a container and has passed over
\* the container of a task in the processing set.
C4_Witness ==
    /\ sweep.pc = "destroy"
    /\ \E t \in processing :
           t \in Keys(containers) /\ t \notin Range(sweep.todo)

\* The tasks whose current registration was made by pre_register.
PreRegistered(t) ==
    t \in Keys(workers) /\ wk[Get(workers, t)].by = "pre_register"

\* C5: no step of destroy_orphans removes the container of a pre-registered
\* task or changes the processing set, and a registering pre_register starts
\* an idle worker on an empty inbox: it enqueues nothing, starts no _process
\* and delivers nothing.
C5_PreRegisterProtects ==
    [][/\ sweep' # sweep =>
            /\ processing' = processing
            /\ \A t \in Keys(containers) :
                   PreRegistered(t) => t \in Keys(containers')
       /\ (Len(wk') > Len(wk) /\ wk'[Len(wk')].by = "pre_register") =>
            /\ wk'[Len(wk')].task \in processing'
            /\ qitems' = Append(qitems, <<>>)
            /\ nmsg' = nmsg /\ started' = started
            /\ \A w \in DOMAIN wk : wk'[w] = wk[w]]_vars

\* C5 witness: destroy_orphans has destroyed a container and has passed over
\* the container of a pre-registered task.
C5_Witness ==
    /\ sweep.pc = "destroy"
    /\ \E t \in Keys(containers) :
           PreRegistered(t) /\ t \notin Range(sweep.todo)

\* C10 as stated: when podman run fails for a message, the worker's next
\* suspension is in deliver_error for that message, with the error
\* delivered once, and the worker stays alive.
C10_CreateFailureDelivered ==
    [][\A w \in DOMAIN wk :
          (/\ Runnable(w) /\ wk[w].pc = "create"
           /\ ~wk'[w].cancelled
           /\ wk'[w].pc \notin {"create", "decider"})
          => /\ wk'[w].pc = "deliver_error"
             /\ wk'[w].msg = wk[w].msg
             /\ wk'[w].errors = 1]_vars

\* C35: for every message processed by _process, deliver_result and
\* deliver_error are never both invoked, and each is invoked at most once.
C35_OneDeliveryPerMessage ==
    \A w \in DOMAIN wk :
        /\ wk[w].results <= 1
        /\ wk[w].errors <= 1
        /\ ~(wk[w].results >= 1 /\ wk[w].errors >= 1)

(***************************************************************************)
(* Properties of the startup sequence, checked under SpecMain.             *)
(***************************************************************************)
\* The tasks whose container load_state kept in the live map.
Survivors == Keys(load_state)

\* The messages enqueued so far for task t: those whose processing started
\* and those still in its inbox.
EnqueuedFor(t) ==
    Range(started[t]) \cup
        (IF t \in Keys(queues) THEN Range(qitems[Get(queues, t)]) ELSE {})

\* C6: every step of the startup orphan sweep finds each task returned by
\* recover_tasks already enqueued (registered, with its replay message) and
\* leaves its container in place; and from the recovery on, the container of
\* a recovered forge task that survived load_state is still mapped.
C6_SweepAfterRecovery ==
    [][/\ sweep' # sweep =>
            /\ Len(main.replay) = Len(main.recovered)
            /\ \A i \in DOMAIN main.recovered :
                  LET t == main.recovered[i] IN
                  /\ t \in processing
                  /\ main.replay[i][1] = t
                  /\ main.replay[i][2] \in EnqueuedFor(t)
                  /\ t \in Keys(containers) => t \in Keys(containers')
       /\ \A t \in Range(main'.recovered) :
             t \in Survivors => t \in Keys(containers')]_vars

\* The sweep has destroyed an orphan and kept a recovered task's container.
C6_Witness ==
    /\ main.pc = "run"
    /\ Survivors \ Keys(containers) # {}
    /\ \E t \in Range(main.recovered) :
          t \in Survivors /\ t \in Keys(containers)

Replays(t) ==
    Cardinality({i \in DOMAIN main.replay : main.replay[i][1] = t})

RecoveryDone == main.pc \in {"setup", "destroy_orphans", "run"}

C9_TurnCap ==
    /\ [](/\ dec.calls <= dec.max_turns
          /\ (dec.pc = "done" /\ ~dec.raised /\ ~dec.tool_less) =>
                /\ dec.calls = dec.max_turns
                /\ dec.saved
                /\ dec.yielded # <<>>
                /\ dec.yielded[Len(dec.yielded)] = MaxTurnsText
          /\ MaxTurnsText \in Range(dec.yielded) =>
                dec.pc = "done" /\ ~dec.raised /\ ~dec.tool_less)
    /\ (dec.pc \in {"llm", "tool"} ~> dec.pc = "done")

\* A call has used all of a positive number of turns and yielded the text.
C9_Witness ==
    /\ dec.pc = "done"
    /\ dec.max_turns = MaxTurns
    /\ dec.calls = dec.max_turns
    /\ dec.yielded # <<>>
    /\ dec.yielded[Len(dec.yielded)] = MaxTurnsText

\* C11: while a message is processed whose decider run raised an exception,
\* deliver_error has been invoked exactly once for that message and
\* deliver_result not at all, up to the end of its processing.
C11_DeciderErrorDelivered ==
    \A w \in DOMAIN wk :
        wk[w].raised =>
            /\ wk[w].pc = "deliver_error"
            /\ wk[w].msg # 0
            /\ wk[w].errors = 1
            /\ wk[w].results = 0

\* A decider exception is being delivered while another message of the same
\* task waits in the inbox.
C11_Witness ==
    \E w \in DOMAIN wk :
        /\ Runnable(w) /\ wk[w].raised
        /\ wk[w].pc = "deliver_error" /\ wk[w].errors = 1
        /\ qitems[wk[w].queue] # <<>>

(***************************************************************************)
(* Properties of the history, checked under SpecDecider and SpecHistory.   *)
(***************************************************************************)
\* C22: every handle_message call that has returned without an exception
\* has saved the state and has yielded a text pair last; when the call ended
\* on a turn without tool calls, that last pair carries the turn's content.
C22_FinalPairAndSave ==
    (dec.pc = "done" /\ ~dec.raised) =>
        /\ dec.saved
        /\ dec.yielded # <<>>
        /\ dec.yielded[Len(dec.yielded)] =
               IF dec.tool_less THEN "content" ELSE MaxTurnsText

\* The position of the last assistant entry of history h (0 if none).
LastAssistant(h) ==
    LET A == {i \in DOMAIN h : h[i].role = "assistant"} IN
    IF A = {} THEN 0 ELSE CHOOSE i \in A : \A j \in A : j <= i

\* The entries that follow the last assistant entry of history h.
AfterAssistant(h) == SubSeq(h, LastAssistant(h) + 1, Len(h))

\* The ids of the tool entries of the current turn, in history order.
TurnToolIds(h) ==
    [i \in DOMAIN AfterAssistant(h) |-> AfterAssistant(h)[i].tool_call_id]

\* C23: within one turn the tool calls run one at a time in the order the
\* LLM emitted them: while a tool call runs, the history holds after the
\* turn's assistant entry exactly the tool entries of the calls emitted
\* before it, in emission order, each keyed by its call's id, and the call
\* that runs is the next one emitted; when the next LLM call is made, or the
\* turn limit ends the call, the tool entries of all the turn's calls are in
\* the history, in emission order.
C23_ToolCallsInOrder ==
    /\ dec.pc = "tool" =>
          /\ dec.pending \in 1..Len(dec.tool_calls)
          /\ \A i \in DOMAIN AfterAssistant(dec.history) :
                 AfterAssistant(dec.history)[i].role = "tool"
          /\ TurnToolIds(dec.history)
               = SubSeq(dec.tool_calls, 1, Len(dec.tool_calls) - dec.pending)
          /\ tc(dec) = dec.tool_calls[Len(TurnToolIds(dec.history)) + 1]
    /\ (dec.turn > 0 /\ ~dec.raised /\ ~dec.tool_less
            /\ dec.pc \in {"llm", "done"}) =>
          /\ dec.tool_calls # <<>>
          /\ \A i \in DOMAIN AfterAssistant(dec.history) :
                 AfterAssistant(dec.history)[i].role = "tool"
          /\ TurnToolIds(dec.history) = dec.tool_calls

\* C23 witness: the LLM is called again after a turn of two or more tool
\* calls.
C23_Witness ==
    /\ dec.pc = "llm" /\ dec.turn > 0
    /\ Len(dec.tool_calls) >= 2
    /\ Len(AfterAssistant(dec.history)) >= 2

\* C36: whenever no handle_message call is in progress for the task, the
\* tool calls listed in an assistant entry of its history are each
\* followed, before the next user or assistant entry, by exactly one tool
\* entry carrying the call's id, also after a call that ended with an
\* exception.  (Every assistant entry but the last one was completed before
\* the LLM was called again, by C23, so the last one decides.)
C36_ToolCallsAnswered ==
    (dec.pc \in {"idle", "done"} /\ LastAssistant(dec.history) # 0) =>
        \A id \in Range(dec.tool_calls) :
            Cardinality({i \in DOMAIN AfterAssistant(dec.history) :
                            /\ AfterAssistant(dec.history)[i].role = "tool"
                            /\ AfterAssistant(dec.history)[i].tool_call_id = id})
                = 1

\* A history starts with a system entry and holds no other.
OneSystemEntry(h) ==
    h = <<>> \/ (h[1].role = "system"
                 /\ \A i \in 2..Len(h) : h[i].role # "system")

\* C27 as stated: a history created by handle_message starts with its one
\* system entry, and that entry carries the system prompt of the channel
\* whose message created it.
C27_ChannelPrompt ==
    /\ OneSystemEntry(dec.history)
    /\ dec.first_prompt # "none" =>
           dec.history[1] = SystemEntry(dec.first_prompt)

\* C27 amended: every history in the map starts with exactly one system
\* entry; the entry of a history that handle_message creates carries the
\* system prompt of the channel whose message created it, or the default
\* SYSTEM_PROMPT when that channel's prompt is empty; and no step (a
\* further message from any channel, an LLM turn, a tool call, the
\* turn-limit exit) changes, removes or duplicates the entry or any other
\* entry already in the history.
C27_SystemEntryFixed ==
    [][/\ OneSystemEntry(dec.history) /\ OneSystemEntry(dec'.history)
       /\ Len(dec'.history) >= Len(dec.history)
       /\ SubSeq(dec'.history, 1, Len(dec.history)) = dec.history
       /\ (dec.history = <<>> /\ dec'.history # <<>>) =>
              dec'.history[1] =
                  SystemEntry(IF dec'.first_prompt = "" THEN SYSTEM_PROMPT
                                                        ELSE dec'.first_prompt)
      ]_vars

\* C27 witness: a history created for a message of the chat channel, whose
\* prompt is empty, after a turn with a tool call and the turn-limit exit.
C27_Witness ==
    /\ dec.first_prompt = ""
    /\ dec.pc = "done" /\ MaxTurnsText \in Range(dec.yielded)
    /\ \E i \in DOMAIN dec.history : dec.history[i].role = "tool"

(***************************************************************************)
(* Properties of reconcile, checked under Spec.                            *)
(***************************************************************************)
\* The entries of task t in the four maps of the TaskRunner and in the
\* container map, as one record (0 or FALSE where t has no entry).
Entries(Q, W, Ch, P, C, t) ==
    [queue |-> IF t \in Keys(Q) THEN Get(Q, t) ELSE 0,
     worker |-> IF t \in Keys(W) THEN Get(W, t) ELSE 0,
     channel |-> IF t \in Keys(Ch) THEN Get(Ch, t) ELSE "none",
     processing |-> t \in P,
     container |-> t \in Keys(C)]

EntriesNow(t) == Entries(queues, workers, channels, processing, containers, t)

EntriesNext(t) ==
    Entries(queues', workers', channels', processing', containers', t)

NoEntries ==
    [queue |-> 0, worker |-> 0, channel |-> "none", processing |-> FALSE,
     container |-> FALSE]

\* C12: a step of reconcile in which a channel answers false removes the
\* asked task's inbox, worker, channel and processing entries and its
\* container, cancels its worker and touches no other task; a step in which
\* it answers true changes none of the maps; no other step removes or
\* replaces an entry or a container; and when the pass ends every task bound
\* at its start has been asked, the objects of the tasks answered false are
\* bound nowhere and their workers cancelled, and the tasks answered true
\* are bound as they were.
C12_ReconcileExact ==
    [][LET t == IF rec.todo = <<>> THEN "none" ELSE Head(rec.todo)
           answering == rec.pc = "is_valid" /\ rec' # rec
           invalid == /\ answering
                      /\ IF rec'.pc = "is_valid"
                         THEN ~rec'.answers[Len(rec'.answers)].valid
                         ELSE EntriesNext(t) # EntriesNow(t)
       IN
       /\ answering =>
             /\ t \in Keys(channels)
             /\ \A u \in Tasks \ {t} : EntriesNext(u) = EntriesNow(u)
             /\ IF invalid
                THEN /\ EntriesNext(t) = NoEntries
                     /\ wk'[Get(workers, t)].cancelled
                ELSE /\ EntriesNext(t) = EntriesNow(t)
                     /\ wk' = wk
       /\ ~answering =>
             \/ /\ queues' = queues /\ workers' = workers
                /\ processing' = processing /\ containers' = containers
             \/ \A u \in Tasks :
                   /\ EntriesNow(u).queue \in {0, EntriesNext(u).queue}
                   /\ EntriesNow(u).worker \in {0, EntriesNext(u).worker}
                   /\ EntriesNow(u).processing => EntriesNext(u).processing
                   /\ EntriesNow(u).container => EntriesNext(u).container
       /\ (rec.pc = "is_valid" /\ rec'.pc = "is_valid") =>
             {a.task : a \in Range(rec'.answers)} \cup Range(rec'.todo)
                = {a.task : a \in Range(rec.answers)} \cup Range(rec.todo)
       /\ (rec.pc = "is_valid" /\ rec'.pc = "idle") =>
             /\ Len(rec.todo) = 1
             /\ \A a \in Range(rec.answers) :
                   IF a.valid
                   THEN /\ EntriesNext(a.task).queue = a.queue
                        /\ EntriesNext(a.task).worker = a.worker
                        /\ EntriesNext(a.task).processing
                        /\ ~wk'[a.worker].cancelled
                   ELSE /\ \A u \in Tasks :
                              /\ EntriesNext(u).queue # a.queue
                              /\ EntriesNext(u).worker # a.worker
                        /\ wk'[a.worker].cancelled]_vars

\* In a pass over two tasks the first was answered false and is cleaned up,
\* container included, while the second is still bound.
C12_Witness ==
    /\ rec.pc = "is_valid"
    /\ Len(rec.todo) = 1
    /\ \E a \in Range(rec.answers) :
          /\ ~a.valid
          /\ wk[a.worker].cancelled
          /\ EntriesNow(a.task) = NoEntries
          /\ started[a.task] # <<>>
    /\ EntriesNow(Head(rec.todo)).processing

(***************************************************************************)
(* SpecRun: the main loop.  main() awaits bot.run() (__main__.py:46-47),   *)
(* which starts Bot._reconcile_loop and then syncs until it is interrupted *)
(* (bot.py:280-287).  bot.invalid is the set of tasks whose channel        *)
(* reports is_valid = false from now on: a closed issue, a room the bot    *)
(* has left.  No code of the program starts TaskRunner.reconcile_loop      *)
(* (core.py:109-116), so no step of the main loop calls reconcile.         *)
(***************************************************************************)
Syncing == bot.pc = "sync_forever"

\* bot.py:292 "joined = set(self.client.rooms.keys())": the rooms the bot
\* is still a member of.
joined == ChatTasks \ bot.invalid

\* bot.py:293-297: the loop of one pass of Bot._reconcile_loop from the
\* list `todo` on, up to its next suspension: a container whose task id is
\* no joined room is destroyed, and sandbox.destroy suspends in podman stop.
RECURSIVE BotSweepRun(_, _)
BotSweepRun(todo, C) ==
    IF todo = <<>> THEN [todo |-> <<>>, containers |-> C, loop |-> "sleep"]
    ELSE IF Head(todo) \notin joined /\ Head(todo) \in Keys(C)
         THEN [todo |-> Tail(todo), containers |-> destroy(C, Head(todo)),
               loop |-> "destroy"]
         ELSE BotSweepRun(Tail(todo), C)

\* sandbox.py:490-492: the loop of destroy_all from the list `todo` on, up
\* to its next suspension; after the last container the client is closed.
RECURSIVE DestroyAllRun(_, _)
DestroyAllRun(todo, C) ==
    IF todo = <<>> THEN [todo |-> <<>>, containers |-> C, pc |-> "close"]
    ELSE IF Head(todo) \in Keys(C)
         THEN [todo |-> Tail(todo), containers |-> destroy(C, Head(todo)),
               pc |-> "destroy_all"]
         ELSE DestroyAllRun(Tail(todo), C)

\* bot.py:252-281 on a fresh start: no state.json, so load_state leaves the
\* empty container map; the reconcile activity is created and sleeps, and
\* run() is suspended in sync_forever.
InitRun ==
    /\ InitRunner
    /\ containers = <<>>
    /\ dec = NewDecider(0)
    /\ main = [pc |-> "run", recovered |-> <<>>, listed |-> FALSE,
               replay |-> <<>>, called |-> FALSE]
    /\ env = [token |-> TRUE, repo |-> TRUE, issues |-> {}, rooms |-> {},
              file |-> {}, running |-> {}]
    /\ bot = [NoBot EXCEPT !.pc = "sync_forever", !.loop = "sleep"]
    /\ disk = NoDisk
    /\ hook = NoHook
    /\ names = NoNames
    /\ stream = NoStream
    /\ tool = NoTool
    /\ room = NoRoom

\* The channel of task t starts to report is_valid = false (channels.py:
\* 106-121: the issue is closed or loses its label; the room is left).
Invalidate(t) ==
    /\ Syncing
    /\ t \notin bot.invalid
    /\ bot' = [bot EXCEPT !.invalid = @ \cup {t}]
    /\ UNCHANGED <<coreVars, main, env, dec, disk, hook, names, stream, tool, room>>

\* bot.py:289-299: asyncio.sleep(60) returns and a pass begins.
BotReconcileWake ==
    /\ bot.loop = "sleep"
    /\ LET r == BotSweepRun(KeyList(containers), containers) IN
       /\ bot' = [bot EXCEPT !.loop = r.loop, !.todo = r.todo]
       /\ containers' = r.containers
    /\ UNCHANGED <<runnerVars, rec, sweep, started, main, env, dec, disk, hook, names, stream, tool, room>>

\* bot.py:296-297: sandbox.destroy has returned; _cancel_worker acts on the
\* Bot's own worker table, and the pass goes on.
BotReconcileResume ==
    /\ bot.loop = "destroy"
    /\ LET r == BotSweepRun(bot.todo, containers) IN
       /\ bot' = [bot EXCEPT !.loop = r.loop, !.todo = r.todo]
       /\ containers' = r.containers
    /\ UNCHANGED <<runnerVars, rec, sweep, started, main, env, dec, disk, hook, names, stream, tool, room>>

BotReconcileStep == BotReconcileWake \/ BotReconcileResume

\* bot.py:281-286: sync_forever is interrupted; the finally clause cancels
\* the reconcile activity and calls destroy_all.  atShutdown is the key
\* set of the container map at that moment (history).
Shutdown ==
    /\ Syncing
    /\ LET r == DestroyAllRun(KeyList(containers), containers) IN
       /\ bot' = [bot EXCEPT !.pc = r.pc, !.loop = "cancelled",
                             !.todo = r.todo,
                             !.atShutdown = Keys(containers)]
       /\ containers' = r.containers
    /\ UNCHANGED <<runnerVars, rec, sweep, started, main, env, dec, disk, hook, names, stream, tool, room>>

\* sandbox.py:391-396 and 490-492: podman stop and rm have returned; the
\* loop of destroy_all goes on.
DestroyAllResume ==
    /\ bot.pc = "destroy_all"
    /\ LET r == DestroyAllRun(bot.todo, containers) IN
       /\ bot' = [bot EXCEPT !.pc = r.pc, !.todo = r.todo]
       /\ containers' = r.containers
    /\ UNCHANGED <<runnerVars, rec, sweep, started, main, env, dec, disk, hook, names, stream, tool, room>>

\* bot.py:287: client.close() has returned; run() is over and main()
\* returns, which ends the process.
ClientClosed ==
    /\ bot.pc = "close"
    /\ bot' = [bot EXCEPT !.pc = "closed"]
    /\ UNCHANGED <<coreVars, main, env, dec, disk, hook, names, stream, tool, room>>

\* The activities of the event loop run until the process ends.
RunWorkerStep == bot.pc # "closed" /\ WorkerStep

\* A message for task t arrives while the main loop runs: a comment on an
\* issue, open or closed (channels.py:227-240), or a message in a room the
\* bot is in.
RunEnqueue(t) ==
    /\ Syncing
    /\ t \in ChatTasks => t \in joined
    /\ CallEnqueue(t, ChannelOf(t))

NextRun ==
    \/ (\E t \in UnitTasks : RunEnqueue(t)) /\ UNCHANGED mainVars
    \/ RunWorkerStep /\ UNCHANGED mainVars
    \/ \E t \in UnitTasks : Invalidate(t)
    \/ BotReconcileWake
    \/ BotReconcileResume
    \/ Shutdown
    \/ DestroyAllResume
    \/ ClientClosed

\* The event loop runs every activity that is ready: the workers and the
\* reconcile activity make progress; closing an issue, leaving a room and
\* interrupting the process are up to the environment.
SpecRun ==
    /\ InitRun
    /\ [][NextRun]_vars
    /\ WF_vars(RunWorkerStep /\ UNCHANGED mainVars)
    /\ WF_vars(BotReconcileStep)
    /\ WF_vars(DestroyAllResume)
    /\ WF_vars(ClientClosed)

(***************************************************************************)
(* Properties of the main loop, checked under SpecRun.                     *)
(***************************************************************************)

\* C13: once the main loop is running, a task in the processing set whose
\* channel reports is_valid = false from some point on is eventually
\* removed from the processing set and has its container destroyed, as
\* long as the main loop keeps running.
C13_InvalidEventuallyCleaned ==
    \A t \in UnitTasks :
        (Syncing /\ t \in processing /\ t \in bot.invalid)
            ~> (~Syncing \/ (t \notin processing /\ t \notin Keys(containers)))

\* C14: when shutdown is over, the reconcile activity is cancelled, the
\* client is closed, and every container that was in the container map
\* when shutdown began is still mapped.
C14_ContainersSurviveShutdown ==
    bot.pc = "closed" =>
        /\ bot.loop = "cancelled"
        /\ \A t \in bot.atShutdown : t \in Keys(containers)

\* C39: while the main loop runs, the container of a task that is in the
\* processing set and whose channel reports is_valid = true is destroyed
\* by no periodic reconciliation activity of the process, the chat bot's
\* own reconcile loop included: such a container leaves the container map
\* only through the destroy_all of the shutdown.
C39_ValidTaskKeepsContainer ==
    [][\A t \in Tasks :
          (/\ t \in processing /\ t \notin bot.invalid
           /\ t \in Keys(containers) /\ t \notin Keys(containers'))
          => bot'.loop = "cancelled"]_vars

(***************************************************************************)
(* SpecHooks: the webhook server of the forge channel.  A delivery is      *)
(* handled by GitHubChannel._handle_webhook (channels.py:167-242); several *)
(* deliveries may be in flight, each suspended in one of the handler's two *)
(* gh subprocesses.  hook.forge is the comment list of each issue on the   *)
(* forge, hook.last the most recent response with what its handler did     *)
(* (history).  The handler reads the processing set and calls enqueue; the *)
(* workers write neither the processing set nor the registration tables,   *)
(* so their steps are left out of this specification.                      *)
(***************************************************************************)
MaxHooks == 2

Sigs == {"none", "bad", "good"}

\* The deliveries: X-GitHub-Event and action (kind), the issue, the
\* X-Hub-Signature-256 header, and the fields of the payload the handler
\* reads: the label added, repository.full_name, whether the issue carries
\* the agent-task label, the comment's sender and its first character.
Deliveries ==
    [kind : {"labeled"}, task : ForgeTasks, sig : Sigs,
     label : {"agent-task", "bug"}, repo : {"o/r", ""},
     has_label : {TRUE}, botsender : {FALSE}, marker : {FALSE}]
    \cup
    [kind : {"comment"}, task : ForgeTasks, sig : {"good"},
     label : {"none"}, repo : {"o/r"},
     has_label : BOOLEAN, botsender : BOOLEAN, marker : BOOLEAN]
    \cup
    [kind : {"ping"}, task : {"gh-1"}, sig : Sigs,
     label : {"none"}, repo : {"o/r"},
     has_label : {TRUE}, botsender : {FALSE}, marker : {FALSE}]

\* The comments an issue may have when the server starts, as the sequence
\* of their bodies: none, or a comment with an empty body and a user
\* comment.
ForgeComments == {<<>>, <<"", "user comment">>}

\* Issues whose comments are longer than a line: a comment with an empty
\* body and a user comment, or one comment of two lines.
LongComments == {<<"", "user comment">>, <<"two-line comment">>}

\* The lines of a comment body.
lines_of(b) ==
    IF b = "two-line comment" THEN <<"first line", "second line">> ELSE <<b>>

\* channels.py:215-223: the output of `gh api .../comments --jq .[].body`,
\* one body after the other, split at the line ends.
RECURSIVE listing(_)
listing(comments) ==
    IF comments = <<>> THEN <<>>
    ELSE lines_of(Head(comments)) \o listing(Tail(comments))

InitHooks ==
    /\ InitRunner
    /\ containers = <<>>
    /\ dec = NewDecider(0)
    /\ bot = NoBot
    /\ disk = NoDisk
    /\ main = [pc |-> "run", recovered |-> <<>>, listed |-> FALSE,
               replay |-> <<>>, called |-> FALSE]
    /\ env = [token |-> TRUE, repo |-> TRUE, issues |-> {}, rooms |-> {},
              file |-> {}, running |-> {}]
    /\ \E s \in BOOLEAN, f \in [ForgeTasks -> ForgeComments] :
           hook = [NoHook EXCEPT !.secret = s, !.forge = f]
    /\ names = NoNames
    /\ stream = NoStream
    /\ tool = NoTool
    /\ room = NoRoom

signature_ok_unchecked(secret, sig) == TRUE

\* channels.py:171-179: with a secret configured the header must be present
\* and equal to the HMAC of the body; without one nothing is checked.
signature_ok(secret, sig) == secret => sig = "good"

already_processing_never(P, t) == FALSE

\* channels.py:194: the test "task_id in self.task_runner._processing".
already_processing(P, t) == t \in P

first_message_without_body(q) ==
    <<"Repository: ", q.repo, "\n\n# ", title(q.task)>>

\* channels.py:208-210: the text of the first message of an issue.
first_message(q) ==
    <<"Repository: ", q.repo, "\n\n# ", title(q.task), "\n\n", body(q.task)>>

\* channels.py:223-224: the non-empty lines of the comment listing.
NonEmpty(lines) == SelectSeq(lines, LAMBDA c : c # "")

\* A message as a handler hands it to enqueue, with the number enqueue
\* gives it.
Enqueued(R, t, text) == [id |-> R.nmsg + 1, task |-> t, text |-> text]

\* The handler returns web.Response(status, text): the request leaves the
\* server and hook.last remembers it.
Respond(H, q, checked, status, text, enq, lines) ==
    [H EXCEPT !.last = [n |-> H.last.n + 1, kind |-> q.kind, task |-> q.task,
                        sig |-> q.sig, label |-> q.label, repo |-> q.repo,
                        checked |-> checked, status |-> status,
                        text |-> text, enq |-> enq, lines |-> lines,
                        has_label |-> q.has_label, botsender |-> q.botsender,
                        marker |-> q.marker]]

Drop(s, i) == [j \in 1..(Len(s) - 1) |-> IF j < i THEN s[j] ELSE s[j + 1]]

\* channels.py:167-200 and 227-242: a delivery arrives and its handler runs
\* up to its first suspension after reading the body: it answers at once,
\* or (labeled, agent-task, task not in the processing set) it starts the
\* gh subprocess that posts the acknowledgement comment.
is_bot_comment_by_login(q) == q.botsender

\* channels.py:234-236: the sender's login ends in "[bot]", or the comment
\* body starts with one of the three marker emojis.
is_bot_comment(q) == q.botsender \/ q.marker

\* payload["comment"]["body"]: a comment of the bot starts with a marker.
comment_body(q) == IF q.marker THEN "marker comment" ELSE "user comment"

HookDeliver(q) ==
    /\ hook.last.n + Len(hook.reqs) < MaxHooks
    /\ IF ~signature_ok(hook.secret, q.sig)
       THEN /\ hook' = Respond(hook, q, FALSE, 401,
                               IF q.sig = "none" THEN "Missing signature"
                                                 ELSE "Invalid signature",
                               <<>>, <<>>)
            /\ UNCHANGED runnerVars
       ELSE IF q.kind = "labeled"
       THEN /\ UNCHANGED runnerVars
            /\ IF q.label # "agent-task"
               THEN hook' = Respond(hook, q, FALSE, 200, "ignored label",
                                    <<>>, <<>>)
               ELSE IF already_processing(processing, q.task)
               THEN hook' = Respond(hook, q, TRUE, 200, "already processing",
                                    <<>>, <<>>)
               ELSE hook' = [hook EXCEPT !.reqs =
                                Append(@, [q |-> q, pc |-> "ack",
                                           enq |-> <<>>])]
       ELSE IF q.kind = "comment"
       THEN IF ~q.has_label
            THEN /\ hook' = Respond(hook, q, FALSE, 200,
                                    "not an agent-task issue", <<>>, <<>>)
                 /\ UNCHANGED runnerVars
            ELSE IF is_bot_comment(q)
            THEN /\ hook' = Respond(hook, q, FALSE, 200,
                                    "ignoring bot comment", <<>>, <<>>)
                 /\ UNCHANGED runnerVars
            ELSE /\ MayEnqueue(Runner, q.task, 1)
                 /\ SetRunner(enqueue(Runner, q.task, "github"))
                 /\ hook' = Respond(hook, q, FALSE, 202, "Accepted",
                                    <<Enqueued(Runner, q.task,
                                               <<comment_body(q)>>)>>, <<>>)
       ELSE /\ hook' = Respond(hook, q, FALSE, 202, "Accepted", <<>>, <<>>)
            /\ UNCHANGED runnerVars
    /\ UNCHANGED <<containers, rec, sweep, started, main, env, dec, bot, disk,
                   names, stream, tool, room>>

\* channels.py:198-225: "gh issue comment" has ended, with exit status 0
\* (the comment is on the issue) or not (logged); the first message is
\* enqueued; with a repository name the handler starts the gh subprocess
\* that lists the comments, without one it answers.
HookAckDone(i, ok) ==
    /\ i \in DOMAIN hook.reqs /\ hook.reqs[i].pc = "ack"
    /\ LET r == hook.reqs[i]
           q == r.q
           m == Enqueued(Runner, q.task, first_message(q))
           H == [hook EXCEPT !.forge[q.task] =
                                 IF ok THEN Append(@, "ack comment") ELSE @]
       IN  /\ MayEnqueue(Runner, q.task, 1)
           /\ SetRunner(enqueue(Runner, q.task, "github"))
           /\ IF q.repo # ""
              THEN hook' = [H EXCEPT !.reqs[i] =
                                [r EXCEPT !.pc = "backfill", !.enq = <<m>>]]
              ELSE hook' = Respond([H EXCEPT !.reqs = Drop(@, i)], q, TRUE,
                                   202, "Accepted", <<m>>, <<>>)
    /\ UNCHANGED <<containers, rec, sweep, started, main, env, dec, bot, disk,
                   names, stream, tool, room>>

\* channels.py:223-225: the loop over the lines of the listing; enqueue
\* does not suspend.
RECURSIVE Backfill(_, _, _, _)
Backfill(R, t, lines, enq) ==
    IF lines = <<>> THEN [R |-> R, enq |-> enq]
    ELSE Backfill(enqueue(R, t, "github"), t, Tail(lines),
                  Append(enq, Enqueued(R, t, <<Head(lines)>>)))

\* channels.py:214-225 and 242: "gh api .../comments" has ended; with exit
\* status 0 and output, every non-empty line is enqueued; the handler
\* answers 202.
HookBackfillDone(i, ok) ==
    /\ i \in DOMAIN hook.reqs /\ hook.reqs[i].pc = "backfill"
    /\ LET r == hook.reqs[i]
           q == r.q
           lines == IF ok THEN listing(hook.forge[q.task]) ELSE <<>>
           todo == NonEmpty(lines)
           b == Backfill(Runner, q.task, todo, r.enq)
       IN  /\ SetRunner(b.R)
           /\ hook' = Respond([hook EXCEPT !.reqs = Drop(@, i)], q, TRUE,
                              202, "Accepted", b.enq, lines)
    /\ UNCHANGED <<containers, rec, sweep, started, main, env, dec, bot, disk,
                   names, stream, tool, room>>

HookStep ==
    \/ \E i \in DOMAIN hook.reqs, ok \in BOOLEAN : HookAckDone(i, ok)
    \/ \E i \in DOMAIN hook.reqs, ok \in BOOLEAN : HookBackfillDone(i, ok)

NextHooks ==
    \/ \E q \in Deliveries : HookDeliver(q)
    \/ HookStep

SpecHooks == InitHooks /\ [][NextHooks]_vars

(***************************************************************************)
(* SpecBackfill: the webhook server without a secret, over issues that     *)
(* have comments when the server starts.                                   *)
(***************************************************************************)
InitBackfill ==
    /\ InitRunner
    /\ containers = <<>>
    /\ dec = NewDecider(0)
    /\ bot = NoBot
    /\ disk = NoDisk
    /\ main = [pc |-> "run", recovered |-> <<>>, listed |-> FALSE,
               replay |-> <<>>, called |-> FALSE]
    /\ env = [token |-> TRUE, repo |-> TRUE, issues |-> {}, rooms |-> {},
              file |-> {}, running |-> {}]
    /\ \E f \in [ForgeTasks -> LongComments] :
           hook = [NoHook EXCEPT !.secret = FALSE, !.forge = f]
    /\ names = NoNames
    /\ stream = NoStream
    /\ tool = NoTool
    /\ room = NoRoom

SpecBackfill == InitBackfill /\ [][NextHooks]_vars

(***************************************************************************)
(* Properties of the webhook handler, checked under SpecHooks.             *)
(***************************************************************************)
\* The step is the end of a handler: a response leaves the server.
Responds == hook'.last.n = hook.last.n + 1

\* The step is a whole handler: the delivery is answered before any
\* suspension.
RespondsAtOnce == Responds /\ hook'.reqs = hook.reqs

Contains(text, x) == \E i \in DOMAIN text : text[i] = x

LabeledAnswered == hook.last.kind = "labeled" /\ hook.last.status # 401

\* C16 as stated: an accepted labeled/agent-task delivery for a task not in
\* the processing set is answered 202 and its handler enqueued exactly one
\* message, under the issue's task id, with the repository name, the title
\* and the body in its text; any other label is answered 200 with nothing
\* enqueued.
C16_ExactlyOneMessage ==
    LET a == hook.last IN
    LabeledAnswered =>
        IF a.label = "agent-task"
        THEN a.text # "already processing" =>
                 /\ a.status = 202
                 /\ Len(a.enq) = 1
                 /\ a.enq[1].task = a.task
                 /\ Contains(a.enq[1].text, a.repo)
                 /\ Contains(a.enq[1].text, title(a.task))
                 /\ Contains(a.enq[1].text, body(a.task))
        ELSE a.status = 200 /\ a.enq = <<>>

\* C16 amended: the handler enqueued the composed message first and after
\* it one message per non-empty line of the comment listing, all under the
\* issue's task id; without a listing that is exactly one message.
C16_FirstMessageThenBackfill ==
    LET a == hook.last
        lines == NonEmpty(a.lines)
    IN  LabeledAnswered =>
            IF a.label = "agent-task"
            THEN a.text # "already processing" =>
                     /\ a.status = 202
                     /\ Len(a.enq) = 1 + Len(lines)
                     /\ \A k \in DOMAIN a.enq :
                            /\ a.enq[k].task = a.task
                            /\ k > 1 => a.enq[k].text = <<lines[k - 1]>>
                            /\ \A j \in DOMAIN a.enq :
                                   j < k => a.enq[j].id < a.enq[k].id
                     /\ Contains(a.enq[1].text, a.repo)
                     /\ Contains(a.enq[1].text, title(a.task))
                     /\ Contains(a.enq[1].text, body(a.task))
                     /\ a.repo = "" => a.lines = <<>>
            ELSE a.status = 200 /\ a.enq = <<>>

C16_Witness ==
    /\ LabeledAnswered
    /\ hook.last.label = "agent-task" /\ hook.last.status = 202
    /\ hook.last.sig = "good" /\ hook.secret
    /\ Len(hook.last.enq) = 2
    /\ hook.last.enq[2].text = <<"user comment">>
    /\ hook.last.lines = <<"", "user comment">>
    /\ Len(qitems[Get(queues, hook.last.task)]) = 2

\* C17: a labeled/agent-task delivery for a task that is in the processing
\* set is answered 200 at once and its handler changes nothing: no enqueue,
\* no acknowledgement comment, no subprocess; put the other way round, a
\* handler goes on to the acknowledgement only for a task that is not in
\* the processing set.
C17_RelabelIgnored ==
    [][/\ (/\ RespondsAtOnce
           /\ hook'.last.kind = "labeled" /\ hook'.last.label = "agent-task"
           /\ hook'.last.status # 401
           /\ hook'.last.task \in processing) =>
              /\ hook'.last.status = 200
              /\ hook'.last.enq = <<>>
              /\ hook'.forge = hook.forge
              /\ UNCHANGED coreVars
       /\ Len(hook'.reqs) > Len(hook.reqs) =>
              hook'.reqs[Len(hook'.reqs)].q.task \notin processing]_vars

C17_Witness ==
    /\ hook.last.kind = "labeled" /\ hook.last.label = "agent-task"
    /\ hook.last.status = 200 /\ hook.last.text = "already processing"
    /\ hook.last.task \in processing
    /\ qitems[Get(queues, hook.last.task)] # <<>>

\* C28: a comment delivery that passed the signature check is answered 200
\* with nothing enqueued and nothing changed when the issue lacks the
\* agent-task label, when the commenter's login ends in [bot], or when the
\* comment starts with a marker emoji; in every other case it is answered
\* 202 and its handler made exactly one enqueue, of the comment body, under
\* the issue's task id.
C28_CommentFilter ==
    [][(/\ Responds /\ hook'.last.kind = "comment"
        /\ hook.secret => hook'.last.sig = "good") =>
           LET a == hook'.last IN
           IF ~a.has_label \/ a.botsender \/ a.marker
           THEN /\ a.status = 200 /\ a.enq = <<>>
                /\ hook'.forge = hook.forge /\ hook'.reqs = hook.reqs
                /\ UNCHANGED coreVars
           ELSE /\ a.status = 202
                /\ Len(a.enq) = 1
                /\ a.enq[1].task = a.task
                /\ a.enq[1].text = <<"user comment">>
                /\ nmsg' = nmsg + 1
                /\ a.task \in Keys(queues')
                /\ qitems'[Get(queues', a.task)] =
                       Append(IF a.task \in Keys(queues)
                              THEN qitems[Get(queues, a.task)] ELSE <<>>,
                              a.enq[1].id)
                /\ \A t \in Keys(queues) \ {a.task} :
                       /\ t \in Keys(queues')
                       /\ qitems'[Get(queues', t)] = qitems[Get(queues, t)]
      ]_vars

\* C28 witness: a user's comment on an issue whose task already has its
\* first message has been enqueued behind it and answered 202.
C28_Witness ==
    /\ hook.secret
    /\ hook.last.kind = "comment" /\ hook.last.status = 202
    /\ hook.last.has_label /\ ~hook.last.botsender /\ ~hook.last.marker
    /\ hook.last.task \in Keys(queues)
    /\ Len(qitems[Get(queues, hook.last.task)]) = 2

\* C29: when the handler of an accepted labeled delivery has listed the
\* issue's comments, the messages it enqueued after the first message are
\* the non-empty comment bodies, one message per comment, in the comments'
\* order.
C29_OneMessagePerComment ==
    [][(/\ Responds /\ hook'.last.kind = "labeled"
        /\ hook'.last.status = 202 /\ hook'.last.lines # <<>>) =>
           LET a == hook'.last
               bodies == NonEmpty(hook.forge[a.task])
           IN  /\ Len(a.enq) = 1 + Len(bodies)
               /\ \A k \in 2..Len(a.enq) :
                      /\ a.enq[k].task = a.task
                      /\ a.enq[k].text = <<bodies[k - 1]>>
                      /\ a.enq[k - 1].id < a.enq[k].id
      ]_vars

\* The composed first messages of issue t that the handlers in flight and
\* the most recent response have enqueued.
FirstMessages(t) ==
    LET IsFirst(m) == m.task = t /\ m.text[1] = "Repository: "
        Of(enq) == {enq[k] : k \in {k \in DOMAIN enq : IsFirst(enq[k])}}
    IN  Of(hook.last.enq)
            \cup UNION {Of(hook.reqs[i].enq) : i \in DOMAIN hook.reqs}

\* C33: for any interleaving of webhook deliveries, the composed first
\* message of an issue is enqueued at most once while its task stays in the
\* processing set: labeled/agent-task deliveries for the same issue that
\* are handled concurrently do not both enqueue it.  (No step of SpecHooks
\* removes a task from the processing set.)
C33_FirstMessageOnce ==
    \A t \in ForgeTasks :
        t \in processing => Cardinality(FirstMessages(t)) <= 1

\* The messages that the handlers in flight and the most recent response
\* have enqueued.
EnqueuedMessages ==
    Range(hook.last.enq) \cup UNION {Range(hook.reqs[i].enq) : i \in DOMAIN hook.reqs}

\* The texts the forge adapter posts on an issue: the acknowledgement of a
\* labeled event (channels.py:200), and the result, error and restart
\* comments, which all start with a marker (channels.py:74, 96, 156).
OwnTexts == {<<"ack comment">>, <<"marker comment">>}

\* C34: no text that the forge adapter itself posts on an issue is ever
\* enqueued as a task message, through any webhook path, the comment
\* backfill of a labeled event included.
C34_OwnTextNeverEnqueued ==
    \A m \in EnqueuedMessages : m.text \notin OwnTexts

(***************************************************************************)
(* SpecNames: sandbox._container_name applied to task ids spelled out      *)
(* character by character.  A task id is a sequence over Alphabet: a       *)
(* letter, the dash, and two characters outside [a-zA-Z0-9_.-].            *)
(***************************************************************************)
MaxIdLen == 3

Allowed == {"a", "-"}
Alphabet == Allowed \cup {"!", ":"}

RECURSIVE Strings(_)
Strings(n) ==
    IF n = 0 THEN {<<>>}
    ELSE LET S == Strings(n - 1)
         IN  S \cup {Append(s, c) : s \in {x \in S : Len(x) = n - 1},
                                    c \in Alphabet}

TaskIds == Strings(MaxIdLen)

\* sandbox.py:28: re.sub(r"[^a-zA-Z0-9_.-]", "-", chat_id).
sub(s) == [i \in DOMAIN s |-> IF s[i] \in Allowed THEN s[i] ELSE "-"]

strip_all(s) == SelectSeq(s, LAMBDA c : c # "-")

\* sandbox.py:28: str.strip("-") removes the dashes at both ends.
RECURSIVE strip(_)
strip(s) ==
    IF s = <<>> THEN s
    ELSE IF Head(s) = "-" THEN strip(Tail(s))
    ELSE IF s[Len(s)] = "-" THEN strip(SubSeq(s, 1, Len(s) - 1))
    ELSE s

\* sandbox.py:28.
slug(chat_id) == strip(sub(chat_id))

\* sandbox.py:26-29: f"sandbox-{slug}".
container_handle(chat_id) == <<"sandbox-">> \o slug(chat_id)

InitNames ==
    /\ InitRunner
    /\ containers = <<>>
    /\ dec = NewDecider(0)
    /\ bot = NoBot
    /\ disk = NoDisk
    /\ hook = NoHook
    /\ main = [pc |-> "none", recovered |-> <<>>, listed |-> FALSE,
               replay |-> <<>>, called |-> FALSE]
    /\ env = [token |-> FALSE, repo |-> FALSE, issues |-> {}, rooms |-> {},
              file |-> {}, running |-> {}]
    /\ \E a \in TaskIds, b \in TaskIds : names = [NoNames EXCEPT !.a = a, !.b = b]
    /\ stream = NoStream
    /\ tool = NoTool
    /\ room = NoRoom

\* sandbox.py:120: create(a) derives the container name of a.
NameA ==
    /\ names.ha = <<>>
    /\ names' = [names EXCEPT !.ha = container_handle(names.a)]
    /\ UNCHANGED <<coreVars, main, env, dec, bot, disk, hook, stream, tool, room>>

\* The same for another task id b.
NameB ==
    /\ names.ha # <<>> /\ names.hb = <<>>
    /\ names' = [names EXCEPT !.hb = container_handle(names.b)]
    /\ UNCHANGED <<coreVars, main, env, dec, bot, disk, hook, stream, tool, room>>

\* A later create(a), after a restart or a destroy.
NameAgain ==
    /\ names.hb # <<>> /\ names.again = <<>>
    /\ names' = [names EXCEPT !.again = container_handle(names.a)]
    /\ UNCHANGED <<coreVars, main, env, dec, bot, disk, hook, stream, tool, room>>

NextNames == NameA \/ NameB \/ NameAgain

SpecNames == InitNames /\ [][NextNames]_vars

(***************************************************************************)
(* Properties of _container_name, checked under SpecNames.                 *)
(***************************************************************************)
CharAt(s, i) == IF i \in DOMAIN s THEN s[i] ELSE "end"

\* The ids differ at a position where one of them has an allowed character.
DifferInAllowed(a, b) ==
    \E i \in 1..MaxIdLen :
        /\ CharAt(a, i) # CharAt(b, i)
        /\ CharAt(a, i) \in Allowed \/ CharAt(b, i) \in Allowed

\* Only allowed characters, and no dash at either end.
Plain(s) ==
    /\ \A i \in DOMAIN s : s[i] \in Allowed
    /\ s # <<>> => (s[1] # "-" /\ s[Len(s)] # "-")

MaxHistory == 2

\* sandbox.py:67-70 and 75: json.dump writes the text of the state in
\* pieces, the container map before the history map; "self._histories or
\* {}" is the history map itself.
serialise_without_history(C, H) ==
    <<[key |-> "containers", value |-> C], [key |-> "history", value |-> <<>>]>>

serialise(C, H) ==
    <<[key |-> "containers", value |-> C], [key |-> "history", value |-> H]>>

\* A text json.load accepts: both pieces are there.
Complete(text) == Len(text) = 2

\* sandbox.py:88-96: json.load and the two state.get; a text that is cut
\* short raises and load_state starts fresh.
parse(text) ==
    IF Complete(text)
    THEN [ok |-> TRUE, containers |-> text[1].value, history |-> text[2].value]
    ELSE [ok |-> FALSE, containers |-> <<>>, history |-> <<>>]

load_state_keeps_stale(fs, R, C) ==
    IF ~fs[STATE_PATH].exists \/ ~parse(fs[STATE_PATH].text).ok
    THEN [containers |-> C, histories |-> <<>>]
    ELSE [containers |-> parse(fs[STATE_PATH].text).containers,
          histories |-> parse(fs[STATE_PATH].text).history]

\* sandbox.py:81-110: load_state with the runtime reporting the containers
\* of R as running and the manager's map being C: without a readable file
\* it returns no history and leaves the map; otherwise the map becomes the
\* persisted entries that are running, and the histories of the others are
\* dropped from what it returns.
load_state_from(fs, R, C) ==
    IF ~fs[STATE_PATH].exists \/ ~parse(fs[STATE_PATH].text).ok
    THEN [containers |-> C, histories |-> <<>>]
    ELSE LET p == parse(fs[STATE_PATH].text)
             stale == Keys(p.containers) \ R
         IN  [containers |-> SelectSeq(p.containers, LAMBDA e : e[1] \in R),
              histories |-> SelectSeq(p.history, LAMBDA e : e[1] \notin stale)]

\* os.replace(src, dst).
replace(fs, src, dst) ==
    IF src = dst THEN fs ELSE [fs EXCEPT ![dst] = fs[src], ![src] = NoFile]

InitState ==
    /\ InitRunner
    /\ containers = <<>>
    /\ dec = NewDecider(0)
    /\ bot = NoBot
    /\ hook = NoHook
    /\ names = NoNames
    /\ stream = NoStream
    /\ tool = NoTool
    /\ room = NoRoom
    /\ main = [pc |-> "load_state", recovered |-> <<>>, listed |-> FALSE,
               replay |-> <<>>, called |-> FALSE]
    /\ env = [token |-> FALSE, repo |-> FALSE, issues |-> {}, rooms |-> {},
              file |-> {}, running |-> {}]
    /\ disk = NoDisk

Saving == disk.save.pc # "idle"

\* sandbox.py:144: create has spawned the container of t and maps it.
MapContainer(t) ==
    /\ ~Saving /\ t \notin Keys(containers)
    /\ containers' = Put(containers, t, container_name(t))
    /\ disk' = [disk EXCEPT !.running = @ \cup {t}, !.dirty = TRUE]
    /\ UNCHANGED <<runnerVars, rec, sweep, started, main, env, dec, bot, hook,
                   names, stream, tool, room>>

\* sandbox.py:388-392: destroy pops the entry of t and stops the container.
UnmapContainer(t) ==
    /\ ~Saving /\ t \in Keys(containers)
    /\ containers' = destroy(containers, t)
    /\ disk' = [disk EXCEPT !.running = @ \ {t}, !.dirty = TRUE]
    /\ UNCHANGED <<runnerVars, rec, sweep, started, main, env, dec, bot, hook,
                   names, stream, tool, room>>

\* The container of t stops on its own (killed, host restarted).
ContainerStops(t) ==
    /\ t \in disk.running
    /\ disk' = [disk EXCEPT !.running = @ \ {t}]
    /\ UNCHANGED <<coreVars, main, env, dec, bot, hook, names, stream, tool, room>>

\* decider.py:96-104 and 141: the history of t gets its system and user
\* entries, or one more entry.
AppendHistory(t) ==
    /\ ~Saving
    /\ LET H == disk.histories IN
       IF t \notin Keys(H)
       THEN disk' = [disk EXCEPT !.histories = Put(H, t, <<"system", "user">>),
                                 !.dirty = TRUE]
       ELSE /\ Len(Get(H, t)) < MaxHistory
            /\ disk' = [disk EXCEPT
                            !.histories = Put(H, t, Append(Get(H, t),
                                                           "assistant")),
                            !.dirty = TRUE]
    /\ UNCHANGED <<coreVars, main, env, dec, bot, hook, names, stream, tool, room>>

\* sandbox.py:66-74: save_state builds the state, then open(tmp, "w")
\* creates or empties the tmp file; or open raises, which is logged.
SaveOpen(ok) ==
    /\ ~Saving
    /\ IF ok
       THEN disk' = [disk EXCEPT
                         !.fs[tmp_path] = [exists |-> TRUE, text |-> <<>>],
                         !.save = [pc |-> "write",
                                   text |-> serialise(containers,
                                                      disk.histories)],
                         !.last = "running", !.dirty = FALSE]
       ELSE disk' = [disk EXCEPT !.last = "failed", !.dirty = FALSE]
    /\ UNCHANGED <<coreVars, main, env, dec, bot, hook, names, stream, tool, room>>

\* sandbox.py:74-75: json.dump writes the next piece, and the file is
\* closed after the last one; or a write raises (disk full), which is
\* logged and leaves the tmp file as it is.
SaveWrite(ok) ==
    /\ disk.save.pc = "write"
    /\ IF ok
       THEN LET n == Len(disk.fs[tmp_path].text) + 1
                t == SubSeq(disk.save.text, 1, n)
            IN  disk' = [disk EXCEPT
                             !.fs[tmp_path].text = t,
                             !.save.pc = IF Complete(t) THEN "replace"
                                                        ELSE "write"]
       ELSE disk' = [disk EXCEPT !.save = [pc |-> "idle", text |-> <<>>],
                                 !.last = "failed"]
    /\ UNCHANGED <<coreVars, main, env, dec, bot, hook, names, stream, tool, room>>

\* sandbox.py:76-79: os.replace renames the tmp file to the state path; or
\* it raises, which is logged.
SaveReplace(ok) ==
    /\ disk.save.pc = "replace"
    /\ IF ok
       THEN disk' = [disk EXCEPT !.fs = replace(@, tmp_path, STATE_PATH),
                                 !.save = [pc |-> "idle", text |-> <<>>],
                                 !.last = "ok"]
       ELSE disk' = [disk EXCEPT !.save = [pc |-> "idle", text |-> <<>>],
                                 !.last = "failed"]
    /\ UNCHANGED <<coreVars, main, env, dec, bot, hook, names, stream, tool, room>>

\* __main__.py:20-27: the process has ended, and a new one constructs its
\* SandboxManager and Decider (empty maps) and calls load_state and
\* load_histories.
RestartLoad ==
    /\ LET r == load_state_from(disk.fs, disk.running, <<>>) IN
       /\ containers' = r.containers
       /\ disk' = [disk EXCEPT !.histories = r.histories,
                               !.save = [pc |-> "idle", text |-> <<>>],
                               !.last = "none", !.dirty = FALSE]
    /\ UNCHANGED <<runnerVars, rec, sweep, started, main, env, dec, bot, hook,
                   names, stream, tool, room>>

NextState ==
    \/ \E t \in UnitTasks : MapContainer(t)
    \/ \E t \in UnitTasks : UnmapContainer(t)
    \/ \E t \in UnitTasks : ContainerStops(t)
    \/ \E t \in UnitTasks : AppendHistory(t)
    \/ \E ok \in BOOLEAN : SaveOpen(ok)
    \/ \E ok \in BOOLEAN : SaveWrite(ok)
    \/ \E ok \in BOOLEAN : SaveReplace(ok)
    \/ RestartLoad

SpecState == InitState /\ [][NextState]_vars

(***************************************************************************)
(* Properties of save_state and load_state, checked under SpecState.       *)
(***************************************************************************)
\* The step is a load_state that follows a save_state call which has
\* returned, with no change of either map since that call began and with
\* every mapped container running.
LoadAfterSave ==
    /\ disk.last \in {"ok", "failed"} /\ disk'.last = "none"
    /\ ~disk.dirty
    /\ Keys(containers) \subseteq disk.running

FileComplete(fs) == fs[STATE_PATH].exists => Complete(fs[STATE_PATH].text)

\* C20: at every instant the file at the state path is absent (as it is
\* before the first save) or complete, so a reader never sees a partial
\* file; it changes only in the rename that ends a successful save_state,
\* to the serialisation of the maps as they were when that save_state was
\* called; a save_state that fails, or a process that ends part-way,
\* leaves it as it was.
C20_AtomicSave ==
    [][/\ FileComplete(disk.fs) /\ FileComplete(disk'.fs)
       /\ disk'.fs[STATE_PATH] # disk.fs[STATE_PATH] =>
              /\ disk.save.pc = "replace" /\ disk'.last = "ok"
              /\ disk'.fs[STATE_PATH] =
                     [exists |-> TRUE,
                      text |-> serialise(containers, disk.histories)]
              /\ disk.save.text = serialise(containers, disk.histories)]_vars

C20_Witness ==
    /\ disk.save.pc = "write"
    /\ disk.fs[tmp_path].exists /\ Len(disk.fs[tmp_path].text) = 1
    /\ disk.fs[STATE_PATH].exists
    /\ disk.fs[STATE_PATH].text # disk.save.text
    /\ parse(disk.fs[STATE_PATH].text).containers # <<>>

(***************************************************************************)
(* SpecFair: the TaskRunner of Spec under the scheduling of the event      *)
(* loop.  asyncio runs every ready task: a worker that was just created,   *)
(* one whose queue.get() can return, and one that was cancelled is         *)
(* resumed.  Nothing is assumed about the awaits that leave the process    *)
(* (podman, the LLM, the channel): each of them may stay pending for ever. *)
(***************************************************************************)
NextFair ==
    \/ (\E t \in UnitTasks : CallEnqueue(t, ChannelOf(t))) /\ UNCHANGED mainVars
    \/ WorkerStep /\ UNCHANGED mainVars
    \/ reconcile_call /\ UNCHANGED mainVars
    \/ (\E v \in BOOLEAN : reconcile_answer(v)) /\ UNCHANGED mainVars

\* The steps of worker w that depend on the event loop alone.
WorkerResume(w) ==
    /\ w \in DOMAIN wk
    /\ WorkerStart(w) \/ WorkerGet(w) \/ WorkerCancelled(w)
    /\ UNCHANGED mainVars

SpecFair ==
    /\ Init /\ [][NextFair]_vars
    /\ \A w \in 1..MaxWorkers : WF_vars(WorkerResume(w))

(***************************************************************************)
(* Properties of the workers' progress, checked under SpecFair.            *)
(***************************************************************************)
\* Message m waits in the inbox that task t is bound to.
InInbox(t, m) == t \in Keys(queues) /\ m \in Range(qitems[Get(queues, t)])

\* _process has been entered for message m of task t.
Started(t, m) == m \in Range(started[t])

\* Task t is in the middle of processing a message.
Busy(t) == \E w \in LiveWorkers(t) : wk[w].pc \in InProcess

\* A step that ends a _process call of task t: its live worker leaves the
\* message it was in the middle of (it returned, raised, or was cancelled).
Completes(t) ==
    \E w \in LiveWorkers(t) :
        /\ wk[w].pc \in InProcess
        /\ \/ wk'[w].cancelled
           \/ wk'[w].pc \notin InProcess
           \/ wk'[w].msg # wk[w].msg

\* The processing of every message of task t terminates: _process calls of
\* t end again and again, or from some moment on t is in none.
Terminates(t) == []<><<Completes(t)>>_vars \/ <>[]~Busy(t)

\* C21: two distinct tasks can be in the middle of a message at the same
\* time (the witness), and a message of t1 whose processing never finishes
\* does not keep the messages of t2 from being processed: if from some
\* moment on t1 is for ever inside one _process call while every _process
\* call of t2 terminates, each message waiting in t2's inbox is eventually
\* started, unless t2 is cleaned up first.
C21_TasksIndependent ==
    \A t1 \in UnitTasks, t2 \in UnitTasks, m \in 1..MaxMsgs :
        (t1 # t2 /\ <>[]Busy(t1) /\ Terminates(t2))
            => (InInbox(t2, m) ~> (Started(t2, m) \/ t2 \notin Keys(queues)))

\* C21 witness: the live workers of two distinct tasks are both in the
\* middle of a message, one waiting for the LLM, the other for podman.
C21_Witness ==
    \E w1 \in DOMAIN wk, w2 \in DOMAIN wk :
        /\ wk[w1].task # wk[w2].task
        /\ Runnable(w1) /\ wk[w1].pc = "decider"
        /\ Runnable(w2) /\ wk[w2].pc = "create"
        /\ started[wk[w1].task] # <<>> /\ started[wk[w2].task] # <<>>

\* C25: an exception raised while processing one message never terminates
\* the worker: under the event loop's scheduling, and provided the
\* processing of every message of task t terminates (by returning or by
\* raising), every message waiting in t's inbox is eventually taken and its
\* processing started, unless t is cleaned up first.
C25_EveryMessageProcessed ==
    \A t \in UnitTasks, m \in 1..MaxMsgs :
        Terminates(t)
            => (InInbox(t, m) ~> (Started(t, m) \/ t \notin Keys(queues)))

\* C25 witness: the only worker task t ever had is in the middle of t's
\* second message and t has no container: sandbox.create raised while the
\* first message was processed, and the worker went on.
C25_Witness ==
    \E w \in DOMAIN wk :
        /\ {v \in DOMAIN wk : wk[v].task = wk[w].task} = {w}
        /\ Runnable(w) /\ wk[w].pc = "create"
        /\ Len(started[wk[w].task]) = 2
        /\ wk[w].msg = started[wk[w].task][2]
        /\ wk[w].task \notin Keys(containers)

(***************************************************************************)
(* SpecRuntime: the TaskRunner of Spec together with the container         *)
(* runtime.  env.running is the set of tasks whose container exists in     *)
(* podman.  `podman run -d` is a child process (sandbox.py:44-50): it      *)
(* creates the container while sandbox.create is suspended in _run, and    *)
(* the map entry is written only after _run has returned (sandbox.py:144). *)
(***************************************************************************)
\* sandbox.py:133-144: podman run returns to a worker that was not
\* cancelled.  rc = 0 means the container now exists; the name of a task is
\* fixed, so podman refuses a second container of the same task.
RuntimeCreateDone(w, ok) ==
    /\ WorkerCreateDone(w, ok)
    /\ ok => wk[w].task \notin env.running
    /\ env' = IF ok THEN [env EXCEPT !.running = @ \cup {wk[w].task}] ELSE env
    /\ UNCHANGED <<main, dec, bot, disk, hook, names, stream, tool, room>>

\* sandbox.py:51-61 and core.py:61-62: CancelledError reaches a worker.
\* _run awaits the child under wait_for and handles TimeoutError only: when
\* the worker is cancelled in sandbox.create the child is neither killed
\* nor awaited, so `podman run` may or may not have created the container.
RuntimeCancelled(w, spawned) ==
    /\ WorkerCancelled(w)
    /\ env' = IF wk[w].pc = "create" /\ spawned
              THEN [env EXCEPT !.running = @ \cup {wk[w].task}]
              ELSE env
    /\ UNCHANGED <<main, dec, bot, disk, hook, names, stream, tool, room>>

\* core.py:93-96 and sandbox.py:387-396: an answer of is_valid; the
\* container of a task that _cleanup found in the map is stopped and
\* removed.
RuntimeReconcileAnswer(valid) ==
    /\ reconcile_answer(valid)
    /\ env' = [env EXCEPT
                 !.running = @ \ (Keys(containers) \ Keys(containers'))]
    /\ UNCHANGED <<main, dec, bot, disk, hook, names, stream, tool, room>>

NextRuntime ==
    \/ (\E t \in UnitTasks : CallEnqueue(t, ChannelOf(t))) /\ UNCHANGED mainVars
    \/ (\E w \in DOMAIN wk : WorkerStart(w)) /\ UNCHANGED mainVars
    \/ (\E w \in DOMAIN wk : WorkerGet(w)) /\ UNCHANGED mainVars
    \/ \E w \in DOMAIN wk, ok \in BOOLEAN : RuntimeCreateDone(w, ok)
    \/ (\E w \in DOMAIN wk, o \in DeciderOutcomes : WorkerDeciderDone(w, o))
           /\ UNCHANGED mainVars
    \/ (\E w \in DOMAIN wk, ok \in BOOLEAN : WorkerDeliverDone(w, ok))
           /\ UNCHANGED mainVars
    \/ \E w \in DOMAIN wk, spawned \in BOOLEAN : RuntimeCancelled(w, spawned)
    \/ reconcile_call /\ UNCHANGED mainVars
    \/ \E v \in BOOLEAN : RuntimeReconcileAnswer(v)

SpecRuntime == Init /\ [][NextRuntime]_vars

(***************************************************************************)
(* Properties of the container runtime, checked under SpecRuntime.         *)
(***************************************************************************)
\* C24: a container of task t exists in the runtime if and only if t is in
\* the container map; in particular a task that is not registered (it was
\* cleaned up and no message was enqueued for it since, or it never had a
\* message) has no container in the runtime and none in the map, whatever
\* its worker was doing when _cleanup ran.
C24_RuntimeMatchesMap ==
    /\ env.running = Keys(containers)
    /\ \A t \in Tasks :
           t \notin processing =>
               t \notin env.running /\ t \notin Keys(containers)

(***************************************************************************)
(* Properties of load_state, checked under SpecState.                      *)
(***************************************************************************)
\* C26: a load_state that reads state.json makes the container map exactly
\* the persisted entries whose container the runtime reports as running,
\* each with its persisted name, and returns the persisted histories except
\* those of the dropped entries, each as persisted; a load_state that finds
\* no readable file returns no history and leaves the new process's map
\* empty.
C26_LoadKeepsRunning ==
    [][(disk.last # "none" /\ disk'.last = "none") =>
          LET p == parse(disk.fs[STATE_PATH].text)
              dropped == Keys(p.containers) \ disk.running
          IN  IF disk.fs[STATE_PATH].exists /\ Complete(disk.fs[STATE_PATH].text)
              THEN /\ Keys(containers') = Keys(p.containers) \cap disk.running
                   /\ \A t \in Keys(containers') :
                          Get(containers', t) = Get(p.containers, t)
                   /\ Keys(disk'.histories) = Keys(p.history) \ dropped
                   /\ \A t \in Keys(disk'.histories) :
                          Get(disk'.histories, t) = Get(p.history, t)
              ELSE containers' = <<>> /\ disk'.histories = <<>>
      ]_vars

\* C26 witness: a load_state has just kept a running container and its
\* history and dropped a stale entry together with its history.
C26_Witness ==
    LET p == parse(disk.fs[STATE_PATH].text) IN
    /\ disk.last = "none" /\ ~disk.dirty /\ ~Saving
    /\ disk.fs[STATE_PATH].exists /\ Complete(disk.fs[STATE_PATH].text)
    /\ containers # <<>>
    /\ Keys(containers) \subseteq Keys(disk.histories)
    /\ \E t \in Keys(p.containers) \cap Keys(p.history) :
           t \notin Keys(containers) /\ t \notin Keys(disk.histories)

(***************************************************************************)
(* SpecStream: one call of SandboxManager.code_stream.  A text is a        *)
(* sequence of characters: "x" a printable character, "NL" the line end,   *)
(* "ESC" one ANSI escape sequence.  The sub-agent writes up to MaxLines    *)
(* lines to its stdout, the last of them possibly without a line end; the  *)
(* coding timeout may fire while the call waits for its readers.           *)
(***************************************************************************)
MaxLines == 3
MaxChunk == 3

\* The lines the sub-agent may write.
RawLines ==
    {<<"x", "NL">>, <<"ESC", "x", "x", "NL">>, <<"x">>, <<"ESC">>}

\* sandbox.py:19-23: _strip_ansi removes every escape sequence.
strip_ansi(text) == SelectSeq(text, LAMBDA c : c # "ESC")

\* "".join(parts).
RECURSIVE join(_)
join(parts) == IF parts = <<>> THEN <<>> ELSE Head(parts) \o join(Tail(parts))

\* sandbox.py:446: sum(len(b) for b in buffer).
size(buffer) == Len(join(buffer))

\* sandbox.py:461 and 471: code_stream returns "".join(stdout_parts).
return(st) == [st EXCEPT !.pc = "done", !.result = join(st.stdout_parts)]

\* sandbox.py:435-438: flush().  A buffer that is not the empty list is
\* joined and passed to on_chunk, where the caller suspends; `after` is
\* where flush was called from: the read loop, or the way out.
flush(st, after) ==
    IF st.buffer # <<>>
    THEN [st EXCEPT !.chunks = Append(@, join(st.buffer)),
                    !.pc = IF after = "read" THEN "on_chunk" ELSE "last_chunk"]
    ELSE IF after = "read" THEN st ELSE return(st)

\* sandbox.py:398-434: the call starts the sub-agent and its readers.
code_stream(chunk_size) ==
    /\ stream.pc = "none"
    /\ stream' = [stream EXCEPT !.pc = "read", !.chunk_size = chunk_size]
    /\ UNCHANGED <<coreVars, main, env, dec, bot, disk, hook, names, tool, room>>

\* sandbox.py:442-447: read_stdout gets the next line.  A line without a
\* line end is the last the stream gives.
read_stdout(raw) ==
    /\ stream.pc = "read" /\ ~stream.eof /\ stream.lines < MaxLines
    /\ LET line == strip_ansi(raw)
           st == [stream EXCEPT !.stdout_parts = Append(@, line),
                                !.buffer = Append(@, line),
                                !.lines = @ + 1,
                                !.eof = raw[Len(raw)] # "NL"]
       IN  stream' = IF size(st.buffer) >= st.chunk_size
                     THEN flush(st, "read") ELSE st
    /\ UNCHANGED <<coreVars, main, env, dec, bot, disk, hook, names, tool, room>>

\* sandbox.py:437-438: on_chunk returns and the buffer is cleared; the
\* read loop goes on, or the call returns.
OnChunkDone ==
    /\ stream.pc \in {"on_chunk", "last_chunk"}
    /\ stream' = IF stream.pc = "on_chunk"
                 THEN [stream EXCEPT !.buffer = <<>>, !.pc = "read"]
                 ELSE return([stream EXCEPT !.buffer = <<>>])
    /\ UNCHANGED <<coreVars, main, env, dec, bot, disk, hook, names, tool, room>>

\* sandbox.py:454-458 and 463-471: both streams are at their end; the rest
\* of the buffer is flushed and the call returns.
EndOfOutput ==
    /\ stream.pc = "read"
    /\ stream' = flush(stream, "return")
    /\ UNCHANGED <<coreVars, main, env, dec, bot, disk, hook, names, tool, room>>

\* sandbox.py:455-461: the coding timeout fires.  wait_for cancels the
\* readers where they are suspended: read_stdout on the stream, or inside
\* flush on on_chunk, and then the statement after that await,
\* buffer.clear(), is not reached.  The handler kills the sub-agent, calls
\* flush and returns.
Timeout ==
    /\ stream.pc \in {"read", "on_chunk"}
    /\ stream' = flush([stream EXCEPT !.timed_out = TRUE], "return")
    /\ UNCHANGED <<coreVars, main, env, dec, bot, disk, hook, names, tool, room>>

InitStream ==
    /\ InitRunner
    /\ containers = <<>>
    /\ NoMain

NextStream ==
    \/ \E chunk_size \in 1..MaxChunk : code_stream(chunk_size)
    \/ \E raw \in RawLines : read_stdout(raw)
    \/ OnChunkDone
    \/ EndOfOutput
    \/ Timeout

SpecStream == InitStream /\ [][NextStream]_vars

(***************************************************************************)
(* Properties of code_stream, checked under SpecStream.                    *)
(***************************************************************************)
\* C30: when code_stream has returned, after a normal end or after the
\* coding timeout, the chunks passed to on_chunk, concatenated in delivery
\* order, are the stdout it returned; no chunk is empty; and the read loop
\* never waits for a line with chunk_size or more characters buffered.
C30_ChunksAreStdout ==
    /\ stream.pc = "done" => join(stream.chunks) = stream.result
    /\ \A i \in DOMAIN stream.chunks : stream.chunks[i] # <<>>
    /\ stream.pc = "read" => size(stream.buffer) < stream.chunk_size

(***************************************************************************)
(* SpecTests: one call of execute_tool for run_tests (tools.py:256-266).   *)
(* The workspace decides what the two commands find: whether the path      *)
(* exists, the exit status of ruff and that of pytest.  Each sandbox.exec  *)
(* is one `podman exec ... sh -c <command>` (sandbox.py:319-323), which    *)
(* runs the shell, times out, or fails because the container is gone.      *)
(***************************************************************************)
\* sandbox._run (sandbox.py:42-60): what one podman exec may do.
ExecOutcomes == {"ran", "timeout", "no_container"}

\* Exit statuses of ruff check (0 clean, 1 violations) and of pytest
\* (0 passed, 1 failed tests, 5 no tests collected).
RuffStatuses == {0, 1}
PytestStatuses == {0, 1, 5}

\* sh -c "cd {path} && {cmd}" (tools.py:258): the status of cd when it
\* fails, and that of the command otherwise.
sh_and(path_ok, cmd_rc) == IF path_ok THEN cmd_rc ELSE 1

\* sh -c "cd {path} && {cmd} || true" (tools.py:259): `|| true` replaces
\* every failure of the list before it by success.
sh_and_or_true(path_ok, cmd_rc) ==
    LET rc == sh_and(path_ok, cmd_rc) IN IF rc # 0 THEN 0 ELSE rc

\* sandbox._run (sandbox.py:53-60): the exit status handed back: 1 after the
\* timeout, podman's own 125 when it cannot exec, the shell's otherwise.
run_rc(outcome, shell_rc) ==
    CASE outcome = "timeout" -> 1
      [] outcome = "no_container" -> 125
      [] OTHER -> shell_rc

\* tools.py:262.
status(lint_rc, test_rc) == IF lint_rc = 0 /\ test_rc = 0 THEN "PASS" ELSE "FAIL"

InitTests ==
    /\ InitRunner
    /\ containers = <<>>
    /\ NoMain

\* tools.py:256-258: the call, up to the first sandbox.exec.
run_tests(path_ok, ruff_rc, pytest_rc) ==
    /\ tool.pc = "none"
    /\ tool' = [tool EXCEPT !.pc = "lint", !.path_ok = path_ok,
                            !.ruff_rc = ruff_rc, !.pytest_rc = pytest_rc]
    /\ UNCHANGED <<coreVars, main, env, dec, bot, disk, hook, names, stream, room>>

\* tools.py:258-259: the lint command has returned, the test command starts.
LintDone(outcome) ==
    /\ tool.pc = "lint"
    /\ tool' = [tool EXCEPT
                  !.pc = "test", !.lint = outcome,
                  !.lint_rc = run_rc(outcome, sh_and(tool.path_ok, tool.ruff_rc))]
    /\ UNCHANGED <<coreVars, main, env, dec, bot, disk, hook, names, stream, room>>

\* tools.py:259-266: the test command has returned; the header is composed.
TestDone(outcome) ==
    /\ tool.pc = "test"
    /\ LET rc == run_rc(outcome, sh_and_or_true(tool.path_ok, tool.pytest_rc))
       IN tool' = [tool EXCEPT !.pc = "done", !.test = outcome, !.test_rc = rc,
                               !.status = status(tool.lint_rc, rc)]
    /\ UNCHANGED <<coreVars, main, env, dec, bot, disk, hook, names, stream, room>>

NextTests ==
    \/ \E path_ok \in BOOLEAN, ruff_rc \in RuffStatuses, pytest_rc \in PytestStatuses :
          run_tests(path_ok, ruff_rc, pytest_rc)
    \/ \E outcome \in ExecOutcomes : LintDone(outcome)
    \/ \E outcome \in ExecOutcomes : TestDone(outcome)

SpecTests == InitTests /\ [][NextTests]_vars

(***************************************************************************)
(* Properties of run_tests, checked under SpecTests.                       *)
(***************************************************************************)
\* The linter, and the test runner, succeeded in the given path: its command
\* was run there and exited 0.
LintSucceeded == tool.lint = "ran" /\ tool.path_ok /\ tool.ruff_rc = 0
TestsSucceeded == tool.test = "ran" /\ tool.path_ok /\ tool.pytest_rc = 0

\* C31: a run_tests call that has returned carries the header PASS only when
\* the linter succeeded and the test runner succeeded in the given path, and
\* FAIL whenever either of them failed.
C31_HeaderIsAggregate ==
    tool.pc = "done" =>
        /\ tool.status \in {"PASS", "FAIL"}
        /\ tool.status = "PASS" <=> LintSucceeded /\ TestsSucceeded

(***************************************************************************)
(* SpecRoom: the chat bot's own handling of one room (bot.py:42-169).      *)
(* The Bot keeps an inbox and a worker per room (_queues, _workers); the   *)
(* worker runs _room_worker and _process_message over the shared           *)
(* SandboxManager.  nio awaits the callbacks of the sync loop one after    *)
(* another, so no message callback runs while _on_member is suspended; the *)
(* room's worker is a task of its own and runs at every suspension.        *)
(* env.running is the set of tasks whose container exists in podman (a     *)
(* stopped container still holds its name until `podman rm`).              *)
(*                                                                         *)
(* room.pc, the worker: "start", "get" (queue.get on an empty queue),      *)
(* "create" (podman run), "init" (_init_workspace), "send_fail", "ack",    *)
(* "agent" (inside agent.handle_message), "typing_off" (the finally        *)
(* clause), "unwinding" (the finally clause while CancelledError           *)
(* propagates), "done".  room.handler, _on_member: "stop" and "rm" (the    *)
(* two podman calls of sandbox.destroy), "leave" (room_leave), "done".     *)
(***************************************************************************)
TheRoom == "room-1"

\* bot.py:42-54, _on_invite: the bot joins the room.
on_invite ==
    /\ room.pc = "none" /\ ~room.member /\ room.event = "none"
    /\ room' = [room EXCEPT !.member = TRUE]
    /\ UNCHANGED <<coreVars, main, env, dec, bot, disk, hook, names, stream, tool>>

\* bot.py:56-81, _on_message: the inbox and the worker are created with the
\* room's first message.
on_message ==
    /\ room.member /\ room.handler = "none" /\ room.sent < MaxMsgs
    /\ room' = [room EXCEPT
                  !.sent = @ + 1,
                  !.inbox = @ + 1,
                  !.queued = TRUE,
                  !.worker = IF room.queued THEN @ ELSE "registered",
                  !.pc = IF room.queued THEN @ ELSE "start"]
    /\ UNCHANGED <<coreVars, main, env, dec, bot, disk, hook, names, stream, tool>>

\* bot.py:86-97: the top of the worker's loop: wait on an empty inbox, or
\* take a message and enter _process_message up to its first suspension.
room_worker(r, C) ==
    IF r.inbox = 0 THEN [r EXCEPT !.pc = "get"]
    ELSE [r EXCEPT !.inbox = @ - 1,
                   !.pc = IF TheRoom \in Keys(C) THEN "ack" ELSE "create"]

RoomRuns == ~room.cancelled

RoomStart ==
    /\ room.pc = "start" /\ RoomRuns
    /\ room' = room_worker(room, containers)
    /\ UNCHANGED <<coreVars, main, env, dec, bot, disk, hook, names, stream, tool>>

RoomGet ==
    /\ room.pc = "get" /\ RoomRuns /\ room.inbox > 0
    /\ room' = room_worker(room, containers)
    /\ UNCHANGED <<coreVars, main, env, dec, bot, disk, hook, names, stream, tool>>

\* sandbox.py:133-147 inside bot.py:100: podman run has returned.  It fails
\* when the name is in use.
RoomCreateDone(ok) ==
    /\ room.pc = "create" /\ RoomRuns
    /\ ok => TheRoom \notin env.running
    /\ IF ok
       THEN /\ containers' = Put(containers, TheRoom, container_name(TheRoom))
            /\ env' = [env EXCEPT !.running = @ \cup {TheRoom}]
            /\ room' = [room EXCEPT !.pc = "init"]
       ELSE /\ room' = [room EXCEPT !.pc = "send_fail"]
            /\ UNCHANGED <<containers, env>>
    /\ UNCHANGED <<runnerVars, rec, sweep, started, main, dec, bot, disk, hook,
                   names, stream, tool>>

\* sandbox.py:147-149 and bot.py:109: the workspace is initialised, the
\* state saved, the acknowledgement sent.
RoomInitDone ==
    /\ room.pc = "init" /\ RoomRuns
    /\ room' = [room EXCEPT !.pc = "ack"]
    /\ UNCHANGED <<coreVars, main, env, dec, bot, disk, hook, names, stream, tool>>

\* bot.py:103-107 and 92-93: the failure was reported; back to the loop.
RoomSendFailDone ==
    /\ room.pc = "send_fail" /\ RoomRuns
    /\ room' = room_worker(room, containers)
    /\ UNCHANGED <<coreVars, main, env, dec, bot, disk, hook, names, stream, tool>>

\* bot.py:109-125.
RoomAckDone ==
    /\ room.pc = "ack" /\ RoomRuns
    /\ room' = [room EXCEPT !.pc = "agent"]
    /\ UNCHANGED <<coreVars, main, env, dec, bot, disk, hook, names, stream, tool>>

\* bot.py:125-143: the agent's generator is exhausted or has raised; the
\* finally clause awaits room_typing.
RoomAgentDone ==
    /\ room.pc = "agent" /\ RoomRuns
    /\ room' = [room EXCEPT !.pc = "typing_off"]
    /\ UNCHANGED <<coreVars, main, env, dec, bot, disk, hook, names, stream, tool>>

\* bot.py:143 and 92-93: back to the loop.
RoomTypingOffDone ==
    /\ room.pc = "typing_off" /\ RoomRuns
    /\ room' = room_worker(room, containers)
    /\ UNCHANGED <<coreVars, main, env, dec, bot, disk, hook, names, stream, tool>>

\* CancelledError is delivered at the worker's await.  A worker that never
\* ran ends at once; inside the try of bot.py:124-143 the finally clause
\* still awaits room_typing; elsewhere the task ends.  A `podman run` in
\* flight is a child process that cancellation does not stop
\* (sandbox.py:46-55): it may still create the container.
RoomCancelled(spawned) ==
    /\ room.cancelled /\ room.pc \notin {"none", "done", "unwinding"}
    /\ spawned => room.pc = "create" /\ TheRoom \notin env.running
    /\ env' = [env EXCEPT
                 !.running = IF spawned THEN @ \cup {TheRoom} ELSE @]
    /\ room' = [room EXCEPT
                  !.pc = IF room.pc \in {"agent", "typing_off"}
                         THEN "unwinding" ELSE "done"]
    /\ UNCHANGED <<coreVars, main, dec, bot, disk, hook, names, stream, tool>>

\* bot.py:143, then 92-93: the finally clauses end, the task is over.
RoomUnwound ==
    /\ room.pc = "unwinding"
    /\ room' = [room EXCEPT !.pc = "done"]
    /\ UNCHANGED <<coreVars, main, env, dec, bot, disk, hook, names, stream, tool>>

\* bot.py:166-169.
cancel_worker(r) ==
    [r EXCEPT !.worker = "none",
              !.cancelled = r.worker = "registered" /\ r.pc # "done",
              !.queued = FALSE]

\* bot.py:154-156 and 162-164: what follows sandbox.destroy in _on_member.
after_destroy(r) ==
    IF r.event = "removed"
    THEN [cancel_worker(r) EXCEPT !.handler = "done"]
    ELSE [cancel_worker(r) EXCEPT !.handler = "leave"]

\* bot.py:145-164, _on_member up to its first suspension.  kind "removed":
\* the bot's own membership became leave or ban; kind "last_left": another
\* member left and no non-bot user remains.  sandbox.destroy returns without
\* suspending when the map has no entry (sandbox.py:388-390).
on_member(kind) ==
    /\ room.member /\ room.handler = "none"
    /\ LET r == [room EXCEPT !.event = kind,
                             !.member = kind # "removed"]
       IN IF TheRoom \in Keys(containers)
          THEN /\ containers' = destroy(containers, TheRoom)
               /\ room' = [r EXCEPT !.handler = "stop"]
          ELSE /\ room' = after_destroy(r)
               /\ UNCHANGED containers
    /\ UNCHANGED <<runnerVars, rec, sweep, started, main, env, dec, bot, disk,
                   hook, names, stream, tool>>

\* sandbox.py:391: podman stop has returned.
RoomStopDone ==
    /\ room.handler = "stop"
    /\ room' = [room EXCEPT !.handler = "rm"]
    /\ UNCHANGED <<coreVars, main, env, dec, bot, disk, hook, names, stream, tool>>

\* sandbox.py:392-396, then bot.py:155-156 or 163-164: podman rm has
\* returned, the worker is cancelled.
RoomRmDone ==
    /\ room.handler = "rm"
    /\ env' = [env EXCEPT !.running = @ \ {TheRoom}]
    /\ room' = after_destroy(room)
    /\ UNCHANGED <<coreVars, main, dec, bot, disk, hook, names, stream, tool>>

\* bot.py:164: room_leave has returned.
RoomLeaveDone ==
    /\ room.handler = "leave"
    /\ room' = [room EXCEPT !.handler = "done", !.member = FALSE]
    /\ UNCHANGED <<coreVars, main, env, dec, bot, disk, hook, names, stream, tool>>

NextRoom ==
    \/ on_invite
    \/ on_message
    \/ RoomStart
    \/ RoomGet
    \/ \E ok \in BOOLEAN : RoomCreateDone(ok)
    \/ RoomInitDone
    \/ RoomSendFailDone
    \/ RoomAckDone
    \/ RoomAgentDone
    \/ RoomTypingOffDone
    \/ \E spawned \in BOOLEAN : RoomCancelled(spawned)
    \/ RoomUnwound
    \/ \E kind \in {"removed", "last_left"} : on_member(kind)
    \/ RoomStopDone
    \/ RoomRmDone
    \/ RoomLeaveDone

SpecRoom == Init /\ [][NextRoom]_vars

(***************************************************************************)
(* Properties of the chat bot's member events, checked under SpecRoom.     *)
(***************************************************************************)
\* C32: once _on_member has handled the bot's removal or the departure of
\* the last user, the room has no container in the runtime and none in the
\* container map, no worker and no inbox, whatever the room's worker was
\* doing when the event arrived; and after the departure of the last user
\* the bot is no member of the room any more.
C32_RoomDestroyed ==
    room.handler = "done" =>
        /\ TheRoom \notin env.running
        /\ TheRoom \notin Keys(containers)
        /\ room.worker = "none"
        /\ ~room.queued
        /\ ~room.member

(***************************************************************************)
(* Properties of _cleanup, checked under Spec.  cleanup(t) changes the     *)
(* TaskRunner's tables and the container map before its only suspension    *)
(* (inside sandbox.destroy), so the states after the cleanup step include  *)
(* every state after its return.                                           *)
(***************************************************************************)
\* The inboxes that no task is bound to any more.
OldInboxes == {q \in DOMAIN qitems : \A i \in DOMAIN queues : queues[i][2] # q}

\* C37: once cleanup(t) has cancelled the worker of t, that worker performs
\* no further effect: it stays cancelled and at most ends; the messages
\* pending in the old inbox stay there; a message whose processing starts,
\* and a container that is created, is that of a worker not cancelled; it
\* invokes neither deliver_result nor deliver_error; and an enqueue that
\* registers t again binds it to a new inbox and a new worker, into which
\* the message is put.
C37_CancelledWorkerInert ==
    [][/\ \A w \in DOMAIN wk :
              wk[w].cancelled =>
                  /\ wk'[w].cancelled
                  /\ wk'[w].pc \in {wk[w].pc, "done"}
                  /\ wk'[w].results <= wk[w].results
                  /\ wk'[w].errors <= wk[w].errors
       /\ \A q \in OldInboxes : qitems'[q] = qitems[q]
       /\ \A t \in Tasks :
              /\ started'[t] # started[t] =>
                     \E w \in DOMAIN wk :
                         /\ Runnable(w) /\ wk[w].task = t
                         /\ wk'[w].msg = started'[t][Len(started'[t])]
              /\ (t \notin Keys(containers) /\ t \in Keys(containers')) =>
                     \E w \in DOMAIN wk :
                         Runnable(w) /\ wk[w].task = t /\ wk[w].pc = "create"
              /\ (t \notin Keys(queues) /\ t \in Keys(queues')) =>
                     /\ Get(queues', t) \notin DOMAIN qitems
                     /\ Get(workers', t) \notin DOMAIN wk
                     /\ qitems'[Get(queues', t)] # <<>>
                            => wk'[Get(workers', t)].by = "enqueue"
      ]_vars

\* C37 witness: a cancelled worker has ended with a message left in its old
\* inbox, while a new worker of the same task processes a later message.
C37_Witness ==
    \E w \in DOMAIN wk, w2 \in DOMAIN wk, q \in OldInboxes :
        /\ wk[w].cancelled /\ wk[w].pc = "done"
        /\ qitems[q] # <<>>
        /\ Runnable(w2) /\ wk[w2].task = wk[w].task
        /\ wk[w2].pc \in InProcess

(***************************************************************************)
(* SpecCleanup: the TaskRunner of Spec together with the Decider's history *)
(* map (disk.histories, the dict that Decider._histories and               *)
(* SandboxManager._histories both name, decider.py:88-90).  Of an entry    *)
(* only the role is kept.  A worker that enters the decider for a message  *)
(* has called handle_message, which looks the task's history up or creates *)
(* it and appends the user entry before its first suspension.              *)
(***************************************************************************)
\* decider.py:96-105: the history map after the head of handle_message for
\* task t.
histories_after_message(H, t) ==
    Put(H, t, Append(IF t \in Keys(H) THEN Get(H, t) ELSE <<"system">>, "user"))

\* Worker w enters decider.handle_message for a message in this step.
Enters(w) ==
    /\ wk'[w].pc = "decider"
    /\ wk[w].pc # "decider" \/ wk'[w].msg # wk[w].msg

\* core.py:77-81: the worker's step, with the history the decider keeps.
HistoryWorkerStep ==
    /\ WorkerStep
    /\ disk' = [disk EXCEPT !.histories =
                   IF \E w \in DOMAIN wk : Enters(w)
                   THEN histories_after_message(
                            @, wk[CHOOSE w \in DOMAIN wk : Enters(w)].task)
                   ELSE @]
    /\ UNCHANGED <<main, env, dec, bot, hook, names, stream, tool, room>>

NextCleanup ==
    \/ (\E t \in UnitTasks : CallEnqueue(t, ChannelOf(t))) /\ UNCHANGED mainVars
    \/ HistoryWorkerStep
    \/ reconcile_call /\ UNCHANGED mainVars
    \/ (\E v \in BOOLEAN : reconcile_answer(v)) /\ UNCHANGED mainVars

SpecCleanup == Init /\ [][NextCleanup]_vars

(***************************************************************************)
(* Properties of _cleanup and the histories, checked under SpecCleanup.    *)
(***************************************************************************)
\* The step is cleanup(t): only _cleanup removes a task's channel.
CleansUp(t) == t \in Keys(channels) /\ t \notin Keys(channels')

\* C38: cleanup(t) leaves no residual state for t: after it t is absent from
\* the inbox, worker, channel, processing, container and history maps, and
\* a task re-created under the same id starts from a fresh history: when
\* the worker of a task has created the task's container and calls the
\* decider, the history holds the system entry and the new message only.
C38_NoResidualState ==
    [][\A t \in Tasks :
          /\ CleansUp(t) =>
                 /\ t \notin Keys(queues')
                 /\ t \notin Keys(workers')
                 /\ t \notin Keys(channels')
                 /\ t \notin processing'
                 /\ t \notin Keys(containers')
                 /\ t \notin Keys(disk'.histories)
          /\ \A w \in DOMAIN wk :
                 (wk[w].task = t /\ wk[w].pc = "create"
                      /\ wk'[w].pc = "decider") =>
                     Get(disk'.histories, t) = <<"system", "user">>
      ]_vars

(***************************************************************************)
(* SpecReload: the second load_state of the process.  main() has loaded    *)
(* the state before any worker existed (__main__.py:26) and has enqueued   *)
(* the recovered tasks (__main__.py:35-36); then it awaits bot.run(),      *)
(* which logs in, syncs and calls sandbox.load_state() again (bot.py:268)  *)
(* while the TaskRunner's workers run.  disk.fs is the file system,        *)
(* env.running the containers that exist in podman, bot.pc the position of *)
(* run(): "login" (before load_state), "load_state" (suspended in the      *)
(* podman inspect calls, bot.todo being the tasks the file named),         *)
(* "sync_forever".                                                         *)
(***************************************************************************)
\* What the process starts from: no state file, or the file of an earlier
\* process whose containers S still run and were loaded by main().
InitReload ==
    /\ InitRunner
    /\ dec = NewDecider(0)
    /\ hook = NoHook
    /\ names = NoNames
    /\ stream = NoStream
    /\ tool = NoTool
    /\ room = NoRoom
    /\ main = [pc |-> "run", recovered |-> <<>>, listed |-> FALSE,
               replay |-> <<>>, called |-> FALSE]
    /\ bot = [NoBot EXCEPT !.pc = "login"]
    /\ \E S \in SUBSET UnitTasks :
          /\ containers = MapOf(S)
          /\ env = [token |-> TRUE, repo |-> TRUE, issues |-> {}, rooms |-> {},
                    file |-> S, running |-> S]
          /\ disk = [NoDisk EXCEPT
                       !.fs[STATE_PATH] =
                           IF S = {} THEN NoFile
                           ELSE [exists |-> TRUE,
                                 text |-> serialise(MapOf(S), <<>>)]]

\* sandbox.py:66-79: save_state writes the map C to state.json, or fails
\* and logs; it does not suspend.
save_state(fs, C, ok) ==
    IF ok THEN [fs EXCEPT ![STATE_PATH] =
                   [exists |-> TRUE, text |-> serialise(C, <<>>)]]
          ELSE fs

\* sandbox.py:133-149 inside core.py:68: podman run returns to the worker;
\* with rc = 0 the map entry is written and the state saved.
ReloadCreateDone(w, ok, saved) ==
    /\ WorkerCreateDone(w, ok)
    /\ ok => wk[w].task \notin env.running
    /\ ~ok => saved
    /\ env' = IF ok THEN [env EXCEPT !.running = @ \cup {wk[w].task}] ELSE env
    /\ disk' = IF ok THEN [disk EXCEPT !.fs = save_state(@, containers', saved)]
                     ELSE disk
    /\ UNCHANGED <<main, dec, bot, hook, names, stream, tool, room>>

\* sandbox.py:99-109: the entries of the file's map whose container runs.
live(C, R) == SelectSeq(C, LAMBDA e : e[1] \in R)

\* bot.py:253-268 and sandbox.py:81-101: run() reaches load_state, which
\* returns at once without a readable file, and otherwise reads the file's
\* map and inspects its containers one by one; with no container to
\* inspect the manager's map is replaced at once.
load_state_call ==
    /\ bot.pc = "login"
    /\ LET f == disk.fs[STATE_PATH]
           p == parse(f.text)
       IN  IF ~f.exists \/ ~p.ok
           THEN /\ bot' = [bot EXCEPT !.pc = "sync_forever"]
                /\ UNCHANGED containers
           ELSE IF p.containers = <<>>
           THEN /\ bot' = [bot EXCEPT !.pc = "sync_forever"]
                /\ containers' = <<>>
           ELSE /\ bot' = [bot EXCEPT !.pc = "load_state",
                                      !.todo = p.containers]
                /\ UNCHANGED containers
    /\ UNCHANGED <<runnerVars, rec, sweep, started, main, env, dec, disk, hook,
                   names, stream, tool, room>>

\* sandbox.py:100-110: the last podman inspect has returned:
\* self._containers = live.
load_state_return ==
    /\ bot.pc = "load_state"
    /\ containers' = live(bot.todo, env.running)
    /\ bot' = [bot EXCEPT !.pc = "sync_forever", !.todo = <<>>]
    /\ UNCHANGED <<runnerVars, rec, sweep, started, main, env, dec, disk, hook,
                   names, stream, tool, room>>

NextReload ==
    \/ (\E t \in UnitTasks : CallEnqueue(t, ChannelOf(t))) /\ UNCHANGED mainVars
    \/ (\E w \in DOMAIN wk : WorkerStart(w)) /\ UNCHANGED mainVars
    \/ (\E w \in DOMAIN wk : WorkerGet(w)) /\ UNCHANGED mainVars
    \/ \E w \in DOMAIN wk, ok \in BOOLEAN, saved \in BOOLEAN :
           ReloadCreateDone(w, ok, saved)
    \/ (\E w \in DOMAIN wk, o \in DeciderOutcomes : WorkerDeciderDone(w, o))
           /\ UNCHANGED mainVars
    \/ (\E w \in DOMAIN wk, ok \in BOOLEAN : WorkerDeliverDone(w, ok))
           /\ UNCHANGED mainVars
    \/ load_state_call
    \/ load_state_return

SpecReload == InitReload /\ [][NextReload]_vars

(***************************************************************************)
(* Properties of the container map, checked under SpecReload, in which no  *)
(* step calls destroy.                                                     *)
(***************************************************************************)
\* C40: once create(t) has spawned a container, t stays in the container
\* map, bound to the same container, and is named by every state file
\* written afterwards, until destroy(t) is called: no other operation, a
\* load_state that runs while workers create or use containers included,
\* removes or replaces the mapping.
C40_MappingStable ==
    [][\A t \in Tasks :
          (t \in Keys(containers) /\ t \in env.running) =>
              /\ t \in Keys(containers')
              /\ Get(containers', t) = Get(containers, t)
              /\ disk'.fs # disk.fs =>
                     t \in Keys(parse(disk'.fs[STATE_PATH].text).containers)
      ]_vars

=============================================================================
